---------------------------- MODULE Spec2Model ----------------------------
(***************************************************************************)
(* A model of cordova-windows' manifest munger,                            *)
(* template/cordova/lib/ConfigChanges.js (PlatformMunger), in its two      *)
(* variants: the whitelist variant (lines 1-260) and the legacy variant    *)
(* (lines 262-444).                                                        *)
(*                                                                         *)
(* Strings that the code inspects with regular expressions (a change's     *)
(* xml, a capability name) are sequences of one-character strings, so the  *)
(* regular expressions, String.replace and the string comparison are       *)
(* computed on the text itself.                                            *)
(*                                                                         *)
(* The module also models, from windows8/cordova.js, the channels          *)
(* (cordova/channel), the startup of a page up to deviceready (the         *)
(* bootstrap script) and the callbacks of exec (cordova, cordova/exec).    *)
(***************************************************************************)
EXTENDS Integers, Sequences, FiniteSets, TLC

(***************************************************************************)
(* Characters                                                              *)
(***************************************************************************)
UpperCase == <<"A","B","C","D","E","F","G","H","I","J","K","L","M",
               "N","O","P","Q","R","S","T","U","V","W","X","Y","Z">>

LowerCase == <<"a","b","c","d","e","f","g","h","i","j","k","l","m",
               "n","o","p","q","r","s","t","u","v","w","x","y","z">>

Digits == <<"0","1","2","3","4","5","6","7","8","9">>

Range(f) == { f[i] : i \in DOMAIN f }

\* The index of c in the sequence s that holds it.
IndexOf(s, c) == CHOOSE i \in DOMAIN s : s[i] = c

\* \w of a JavaScript regular expression: [A-Za-z0-9_]
WordChars == Range(UpperCase) \cup Range(LowerCase) \cup Range(Digits) \cup {"_"}

IsWordChar(c) == c \in WordChars

\* \s of a JavaScript regular expression (the characters used here)
IsSpaceChar(c) == c \in {" ", "\t", "\n", "\r"}

\* The UTF-16 code unit of every word character: the order String < compares by.
CharCodes ==
    [ c \in WordChars |->
        IF c \in Range(Digits) THEN 47 + IndexOf(Digits, c)
        ELSE IF c \in Range(UpperCase) THEN 64 + IndexOf(UpperCase, c)
        ELSE IF c = "_" THEN 95
        ELSE 96 + IndexOf(LowerCase, c) ]

CharCode(c) == CharCodes[c]

\* The case folding of the regular expressions' i flag.
LowerOf == [ c \in Range(UpperCase) |-> LowerCase[IndexOf(UpperCase, c)] ]

FoldCase(c) == IF c \in DOMAIN LowerOf THEN LowerOf[c] ELSE c

(***************************************************************************)
(* Strings as sequences of characters                                      *)
(***************************************************************************)
\* The literal lit occurs in s at position i (ignoreCase: the i flag).
MatchesAt(s, i, lit, ignoreCase) ==
    /\ i >= 1
    /\ i + Len(lit) - 1 <= Len(s)
    /\ \A k \in 1..Len(lit) :
          IF ignoreCase THEN FoldCase(s[i + k - 1]) = FoldCase(lit[k])
                        ELSE s[i + k - 1] = lit[k]

\* The length of the longest run of \w characters of s that starts at i (\w+).
RECURSIVE WordRun(_, _)
WordRun(s, i) ==
    IF i <= Len(s) /\ IsWordChar(s[i]) THEN 1 + WordRun(s, i + 1) ELSE 0

\* The length of the longest run of \s characters of s that starts at i (\s*).
RECURSIVE SpaceRun(_, _)
SpaceRun(s, i) ==
    IF i <= Len(s) /\ IsSpaceChar(s[i]) THEN 1 + SpaceRun(s, i + 1) ELSE 0

Min(S) == CHOOSE x \in S : \A y \in S : x <= y

\* JavaScript's a < b on strings: lexicographic on code units, a proper
\* prefix being the smaller.
RECURSIVE StringLess(_, _)
StringLess(a, b) ==
    IF b = <<>> THEN FALSE
    ELSE IF a = <<>> THEN TRUE
    ELSE IF CharCode(Head(a)) < CharCode(Head(b)) THEN TRUE
    ELSE IF CharCode(Head(a)) > CharCode(Head(b)) THEN FALSE
    ELSE StringLess(Tail(a), Tail(b))

\* The source's string literals.
S_Name == <<"N","a","m","e","=","\"">>
S_Capability == <<"C","a","p","a","b","i","l","i","t","y">>
S_OpenCapability == <<"<">> \o S_Capability
S_UapCapability == <<"u","a","p",":">> \o S_Capability

\* What a failed String.match returns, and what a field that is not set reads as.
null == <<"null">>
undefined == "undefined"

\* String.prototype.replace(/lit/, by): the first occurrence of lit in s is
\* replaced, and s is returned as it is when lit does not occur.
ReplaceFirst(s, lit, by) ==
    LET at == { i \in 1..Len(s) : MatchesAt(s, i, lit, FALSE) }
    IN  IF at = {} THEN s
        ELSE LET i == Min(at)
             IN  SubSeq(s, 1, i - 1) \o by \o SubSeq(s, i + Len(lit), Len(s))

(***************************************************************************)
(* Static configuration                                                    *)
(***************************************************************************)
CAPS_SELECTOR == "/Package/Capabilities"
WINDOWS10_MANIFEST == "package.windows10.appxmanifest"
WINDOWS_MANIFEST == "package.windows.appxmanifest"
PHONE_MANIFEST == "package.phone.appxmanifest"
PACKAGE_MANIFEST == "package.appxmanifest"

\* Capability names (texts).
N_chat == <<"c","h","a","t">>
N_contacts == <<"c","o","n","t","a","c","t","s">>
N_webcam == <<"w","e","b","c","a","m">>
N_Location == <<"L","o","c","a","t","i","o","n">>
N_musicLibrary == <<"m","u","s","i","c","L","i","b","r","a","r","y">>

\* The capabilities that are declared in the uap namespace in a Windows 10
\* manifest (AppxManifest.CapsNeedUapPrefix).
CapsNeedUapPrefix == { N_chat, N_contacts, N_musicLibrary }

(***************************************************************************)
(* The xml fragments of the inputs                                         *)
(***************************************************************************)
\* <elem Name="name"/>
Element(elem, name) == <<"<">> \o elem \o <<" ">> \o S_Name \o name \o <<"\"", "/", ">">>

X_webcam == Element(S_Capability, N_webcam)
\* <Capability Name="webcam" Id="a"/>: the same name in another fragment
X_webcamId == <<"<">> \o S_Capability \o <<" ">> \o S_Name \o N_webcam
                 \o <<"\"", " ", "I", "d", "=", "\"", "a", "\"", "/", ">">>
\* leading white space
X_chat == <<" ", "\n">> \o Element(S_Capability, N_chat)
X_contacts == Element(S_Capability, N_contacts)
X_Location == Element(S_Capability, N_Location)
X_deviceWebcam == Element(<<"D", "e", "v", "i", "c", "e">> \o S_Capability, N_webcam)
\* <Capability />: no Name attribute
X_noName == <<"<">> \o S_Capability \o <<" ", "/", ">">>
X_uapChat == <<" ", "\n">> \o Element(S_UapCapability, N_chat)
X_uapWebcam == Element(S_UapCapability, N_webcam)
\* <DisplayName>App</DisplayName>, a change of another selector
X_displayName == <<"<", "D", "i", "s", "p", "l", "a", "y", "N", "a", "m", "e", ">",
                   "A", "p", "p", "<", "/", "D", "i", "s", "p", "l", "a", "y",
                   "N", "a", "m", "e", ">">>

X_uapContacts == Element(S_UapCapability, N_contacts)
\* <Capability Name="chat"></Capability>: the element name occurs twice
X_chatPair == <<" ", "<">> \o S_Capability \o <<" ">> \o S_Name \o N_chat
                 \o <<"\"", ">", "<", "/">> \o S_Capability \o <<">">>

Fragments ==
    { X_webcam, X_webcamId, X_chat, X_contacts, X_Location, X_deviceWebcam, X_noName,
      X_uapChat, X_uapWebcam, X_uapContacts, X_displayName, X_chatPair }

(***************************************************************************)
(* Capability changes: records [xml, count, before].                       *)
(* A function that can throw is modelled by its value on the runs that     *)
(* return and by a predicate ...Throws that tells the runs that throw.     *)
(***************************************************************************)
\* capability.xml.match(/Name="(\w+)"/i): the capture of the leftmost match,
\* or null. \w+ is greedy and must be followed by the closing quote.
matchName(xml) ==
    LET n == Len(S_Name)
        at == { i \in 1..Len(xml) :
                  /\ MatchesAt(xml, i, S_Name, TRUE)
                  /\ WordRun(xml, i + n) >= 1
                  /\ MatchesAt(xml, i + n + WordRun(xml, i + n), <<"\"">>, FALSE) }
    IN  IF at = {} THEN null
        ELSE LET i == Min(at)
             IN  SubSeq(xml, i + n, i + n + WordRun(xml, i + n) - 1)

\* matchName, computed once for each of the fragments of the inputs.
matchNameOf == [ xml \in Fragments |-> matchName(xml) ]

\* getCapabilityName: capability.xml.match(reg)[1]
getCapabilityName(capability) ==
    IF capability.xml \in Fragments THEN matchNameOf[capability.xml]
    ELSE matchName(capability.xml)

\* getCapabilityName reading the capture of (capability.xml.match(reg) || []):
\* no match, no error.
getCapabilityNameThrows_noError(capability) == FALSE

\* Indexing the null of a failed match throws a TypeError.
getCapabilityNameThrows(capability) == getCapabilityName(capability) = null

\* uniqueCaps.some(cap => getCapabilityName(cap) === getCapabilityName(currCap))
isRepeated(uniqueCaps, currCap) ==
    \E k \in 1..Len(uniqueCaps) :
        getCapabilityName(uniqueCaps[k]) = getCapabilityName(currCap)

\* some() visits uniqueCaps in order and stops at the first match; each visit
\* extracts the name of cap, then the name of currCap.
RECURSIVE isRepeatedThrows(_, _)
isRepeatedThrows(uniqueCaps, currCap) ==
    IF uniqueCaps = <<>> THEN FALSE
    ELSE IF getCapabilityNameThrows(Head(uniqueCaps)) THEN TRUE
    ELSE IF getCapabilityNameThrows(currCap) THEN TRUE
    ELSE IF getCapabilityName(Head(uniqueCaps)) = getCapabilityName(currCap) THEN FALSE
    ELSE isRepeatedThrows(Tail(uniqueCaps), currCap)

\* capabilities.reduce(..., []) from position i on, with accumulator uniqueCaps.
RECURSIVE reduceUnique(_, _, _)
reduceUnique(capabilities, i, uniqueCaps) ==
    IF i > Len(capabilities) THEN uniqueCaps
    ELSE reduceUnique(capabilities, i + 1,
                      IF isRepeated(uniqueCaps, capabilities[i])
                      THEN uniqueCaps
                      ELSE uniqueCaps \o <<capabilities[i]>>)

RECURSIVE reduceUniqueThrows(_, _, _)
reduceUniqueThrows(capabilities, i, uniqueCaps) ==
    IF i > Len(capabilities) THEN FALSE
    ELSE IF isRepeatedThrows(uniqueCaps, capabilities[i]) THEN TRUE
    ELSE reduceUniqueThrows(capabilities, i + 1,
                            IF isRepeated(uniqueCaps, capabilities[i])
                            THEN uniqueCaps
                            ELSE uniqueCaps \o <<capabilities[i]>>)

\* getUniqueCapabilities removing in place while iterating forward: after a
\* removal the next element is skipped, so it is kept unexamined.
RECURSIVE reduceUnique_skipAfterRemoval(_, _, _)
reduceUnique_skipAfterRemoval(capabilities, i, uniqueCaps) ==
    IF i > Len(capabilities) THEN uniqueCaps
    ELSE IF ~isRepeated(uniqueCaps, capabilities[i])
         THEN reduceUnique_skipAfterRemoval(capabilities, i + 1,
                                            uniqueCaps \o <<capabilities[i]>>)
    ELSE IF i + 1 > Len(capabilities) THEN uniqueCaps
    ELSE reduceUnique_skipAfterRemoval(capabilities, i + 2,
                                       uniqueCaps \o <<capabilities[i + 1]>>)

getUniqueCapabilities_skipAfterRemoval(capabilities) ==
    reduceUnique_skipAfterRemoval(capabilities, 1, <<>>)

\* getUniqueCapabilities keyed by name, a later change replacing the earlier
\* one of its name.
getUniqueCapabilities_lastWins(capabilities) ==
    LET first == reduceUnique(capabilities, 1, <<>>)
    IN  [ k \in 1..Len(first) |->
            LET same == { i \in 1..Len(capabilities) :
                            getCapabilityName(capabilities[i]) = getCapabilityName(first[k]) }
            IN  capabilities[CHOOSE i \in same : \A j \in same : j <= i] ]

\* getUniqueCapabilities: the capabilities without those whose name an earlier
\* one has.
getUniqueCapabilities(capabilities) == reduceUnique(capabilities, 1, <<>>)

getUniqueCapabilitiesThrows(capabilities) == reduceUniqueThrows(capabilities, 1, <<>>)

\* compareCapabilities reading the name of firstCap twice.
compareCapabilities_firstCapTwice(firstCap, secondCap) ==
    LET firstCapName == getCapabilityName(firstCap)
        secondCapName == getCapabilityName(firstCap)
    IN  IF StringLess(firstCapName, secondCapName) THEN -1
        ELSE IF StringLess(secondCapName, firstCapName) THEN 1
        ELSE 0

\* compareCapabilities: -1, 0 or 1
compareCapabilities(firstCap, secondCap) ==
    LET firstCapName == getCapabilityName(firstCap)
        secondCapName == getCapabilityName(secondCap)
    IN  IF StringLess(firstCapName, secondCapName) THEN -1
        ELSE IF StringLess(secondCapName, firstCapName) THEN 1
        ELSE 0

\* Array.prototype.sort as an insertion sort (V8's algorithm for arrays of up
\* to ten elements, and stable as ES2019 requires). One pass: element is moved
\* left past every sorted element that compares greater.
RECURSIVE insertSorted_pastEqual(_, _)
insertSorted_pastEqual(sorted, element) ==
    IF sorted = <<>> THEN <<element>>
    ELSE LET tmp == sorted[Len(sorted)]
         IN  IF compareCapabilities(tmp, element) >= 0
             THEN insertSorted_pastEqual(SubSeq(sorted, 1, Len(sorted) - 1), element) \o <<tmp>>
             ELSE sorted \o <<element>>

RECURSIVE insertSorted(_, _)
insertSorted(sorted, element) ==
    IF sorted = <<>> THEN <<element>>
    ELSE LET tmp == sorted[Len(sorted)]
         IN  IF compareCapabilities(tmp, element) > 0
             THEN insertSorted(SubSeq(sorted, 1, Len(sorted) - 1), element) \o <<tmp>>
             ELSE sorted \o <<element>>

RECURSIVE insertionSort(_, _, _)
insertionSort(capabilities, i, sorted) ==
    IF i > Len(capabilities) THEN sorted
    ELSE insertionSort(capabilities, i + 1, insertSorted(sorted, capabilities[i]))

\* sortCapabilities with the sort left out.
sortCapabilities_unsorted(capabilities) == capabilities

\* capabilities.sort(compareCapabilities)
sortCapabilities(capabilities) == insertionSort(capabilities, 1, <<>>)

\* The comparator is not called on fewer than two elements; with two or more
\* it is called on every element, and throws on one without a name.
sortCapabilitiesThrows(capabilities) ==
    /\ Len(capabilities) >= 2
    /\ \E i \in 1..Len(capabilities) : getCapabilityNameThrows(capabilities[i])

\* hasCapabilityChange: /^\s*<Capability\s/.test(change.xml)
hasCapabilityChange(change) ==
    LET xml == change.xml
        i == 1 + SpaceRun(xml, 1)
    IN  /\ MatchesAt(xml, i, S_OpenCapability, FALSE)
        /\ i + Len(S_OpenCapability) <= Len(xml)
        /\ IsSpaceChar(xml[i + Len(S_OpenCapability)])

\* String.prototype.replace(/lit/g, by): every occurrence of lit is replaced.
RECURSIVE ReplaceEvery(_, _, _)
ReplaceEvery(s, lit, by) ==
    IF s = <<>> THEN <<>>
    ELSE IF MatchesAt(s, 1, lit, FALSE)
         THEN by \o ReplaceEvery(SubSeq(s, Len(lit) + 1, Len(s)), lit, by)
         ELSE <<Head(s)>> \o ReplaceEvery(Tail(s), lit, by)

\* createPrefixedCapabilityChange with the regular expression /Capability/g.
createPrefixedCapabilityChange_everyOccurrence(change) ==
    IF getCapabilityName(change) \notin CapsNeedUapPrefix THEN change
    ELSE [ xml |-> ReplaceEvery(change.xml, S_Capability, S_UapCapability),
           count |-> change.count,
           before |-> change.before ]

\* createPrefixedCapabilityChange without the look-up in CapsNeedUapPrefix.
createPrefixedCapabilityChange_noWhitelist(change) ==
    [ xml |-> ReplaceFirst(change.xml, S_Capability, S_UapCapability),
      count |-> change.count,
      before |-> change.before ]

\* createPrefixedCapabilityChange of the whitelist variant.
createPrefixedCapabilityChange(change) ==
    IF getCapabilityName(change) \notin CapsNeedUapPrefix THEN change
    ELSE [ xml |-> ReplaceFirst(change.xml, S_Capability, S_UapCapability),
           count |-> change.count,
           before |-> change.before ]

\* generateUapCapabilities of the whitelist variant:
\* capabilities.filter(hasCapabilityChange).map(createPrefixedCapabilityChange)
generateUapCapabilities(capabilities) ==
    LET filtered == SelectSeq(capabilities, hasCapabilityChange)
    IN  [ i \in 1..Len(filtered) |-> createPrefixedCapabilityChange(filtered[i]) ]

generateUapCapabilitiesThrows(capabilities) ==
    LET filtered == SelectSeq(capabilities, hasCapabilityChange)
    IN  \E i \in 1..Len(filtered) : getCapabilityNameThrows(filtered[i])

\* createPrefixedCapabilityChange of the legacy variant: no name is looked up.
createPrefixedCapabilityChangeLegacy(change) ==
    [ xml |-> ReplaceFirst(change.xml, S_Capability, S_UapCapability),
      count |-> change.count,
      before |-> change.before ]

\* generateUapCapabilities of the legacy variant prefixing only the changes
\* whose name is in CapsNeedUapPrefix, and leaving the others out.
generateUapCapabilitiesLegacy_membersOnly(munge) ==
    [ parents |->
        [ selector \in DOMAIN munge.parents |->
            LET filtered == SelectSeq(munge.parents[selector],
                                LAMBDA change : /\ hasCapabilityChange(change)
                                                /\ getCapabilityName(change) \in CapsNeedUapPrefix)
            IN  [ i \in 1..Len(filtered) |->
                    createPrefixedCapabilityChangeLegacy(filtered[i]) ] ] ]

\* generateUapCapabilities of the legacy variant setting result.parents[selector]
\* only when a change of the selector matches.
generateUapCapabilitiesLegacy_matchingSelectorsOnly(munge) ==
    [ parents |->
        [ selector \in { sel \in DOMAIN munge.parents :
                            \E i \in 1..Len(munge.parents[sel]) :
                                hasCapabilityChange(munge.parents[sel][i]) } |->
            LET filtered == SelectSeq(munge.parents[selector], hasCapabilityChange)
            IN  [ i \in 1..Len(filtered) |->
                    createPrefixedCapabilityChangeLegacy(filtered[i]) ] ] ]

\* generateUapCapabilities of the legacy variant: a munge with the selectors of
\* munge, each holding the prefixed <Capability> changes of that selector.
generateUapCapabilitiesLegacy(munge) ==
    [ parents |->
        [ selector \in DOMAIN munge.parents |->
            LET filtered == SelectSeq(munge.parents[selector], hasCapabilityChange)
            IN  [ i \in 1..Len(filtered) |->
                    createPrefixedCapabilityChangeLegacy(filtered[i]) ] ] ]

(***************************************************************************)
(* Demultiplexing of package.appxmanifest changes                          *)
(* A change is a record of the fields that are set; reading a field that   *)
(* is not set gives undefined. Field values are written as their text.     *)
(***************************************************************************)
Get(obj, key) == IF key \in DOMAIN obj THEN obj[key] ELSE undefined

\* Windows versions, as semver reads them: major, minor, patch.
V8_1_0 == <<8, 1, 0>>
V10_0_0 == <<10, 0, 0>>

\* The order of two versions: -1, 0 or 1.
compareVersions(a, b) ==
    IF a[1] # b[1] THEN (IF a[1] < b[1] THEN -1 ELSE 1)
    ELSE IF a[2] # b[2] THEN (IF a[2] < b[2] THEN -1 ELSE 1)
    ELSE IF a[3] # b[3] THEN (IF a[3] < b[3] THEN -1 ELSE 1)
    ELSE 0

\* The comparators a range expression parses to (semver's Range), for the
\* range expressions used here: "^10.0.0" is >=10.0.0 <11.0.0, "~8.1.0" is
\* >=8.1.0 <8.2.0.
parseRange(range) ==
    CASE range = "8.1.0"    -> << [op |-> "=",  v |-> <<8, 1, 0>>] >>
      [] range = "10.0.0"   -> << [op |-> "=",  v |-> <<10, 0, 0>>] >>
      [] range = ">=8.1.0"  -> << [op |-> ">=", v |-> <<8, 1, 0>>] >>
      [] range = "<10.0.0"  -> << [op |-> "<",  v |-> <<10, 0, 0>>] >>
      [] range = ">8.1.0"   -> << [op |-> ">",  v |-> <<8, 1, 0>>] >>
      [] range = "<=8.1.0"  -> << [op |-> "<=", v |-> <<8, 1, 0>>] >>
      [] range = "^10.0.0"  -> << [op |-> ">=", v |-> <<10, 0, 0>>],
                                  [op |-> "<",  v |-> <<11, 0, 0>>] >>
      [] range = "~8.1.0"   -> << [op |-> ">=", v |-> <<8, 1, 0>>],
                                  [op |-> "<",  v |-> <<8, 2, 0>>] >>
      [] range = ">=11.0.0" -> << [op |-> ">=", v |-> <<11, 0, 0>>] >>

\* semver.satisfies(version, range): the version meets every comparator.
satisfies(version, range) ==
    LET comparators == parseRange(range)
    IN  \A k \in 1..Len(comparators) :
            LET c == compareVersions(version, comparators[k].v)
            IN  CASE comparators[k].op = "="  -> c = 0
                  [] comparators[k].op = ">=" -> c >= 0
                  [] comparators[k].op = ">"  -> c > 0
                  [] comparators[k].op = "<=" -> c <= 0
                  [] comparators[k].op = "<"  -> c < 0

\* MANIFESTS: for each device family its version keys, in the order Object.keys
\* lists them (the order they are written in), each with its manifests and
\* whether the entry is an Array or a single string.
MANIFESTS ==
    [ windows |-> << [ winver |-> V8_1_0, isArray |-> FALSE,
                       files |-> <<WINDOWS_MANIFEST>> ],
                     [ winver |-> V10_0_0, isArray |-> FALSE,
                       files |-> <<WINDOWS10_MANIFEST>> ] >>,
      phone   |-> << [ winver |-> V8_1_0, isArray |-> FALSE,
                       files |-> <<PHONE_MANIFEST>> ],
                     [ winver |-> V10_0_0, isArray |-> FALSE,
                       files |-> <<WINDOWS10_MANIFEST>> ] >>,
      all     |-> << [ winver |-> V8_1_0, isArray |-> TRUE,
                       files |-> <<WINDOWS_MANIFEST, PHONE_MANIFEST>> ],
                     [ winver |-> V10_0_0, isArray |-> FALSE,
                       files |-> <<WINDOWS10_MANIFEST>> ] >> ]

\* createReplacement reading xmls from the field xml.
createReplacement_xmlsFromXml(manifestFile, originalChange) ==
    [ target       |-> manifestFile,
      parent       |-> Get(originalChange, "parent"),
      after        |-> Get(originalChange, "after"),
      xmls         |-> Get(originalChange, "xml"),
      versions     |-> Get(originalChange, "versions"),
      deviceTarget |-> Get(originalChange, "deviceTarget") ]

\* createReplacement: a new change of six fields.
createReplacement(manifestFile, originalChange) ==
    [ target       |-> manifestFile,
      parent       |-> Get(originalChange, "parent"),
      after        |-> Get(originalChange, "after"),
      xmls         |-> Get(originalChange, "xmls"),
      versions     |-> Get(originalChange, "versions"),
      deviceTarget |-> Get(originalChange, "deviceTarget") ]

hasQualifier(change) ==
    \/ Get(change, "versions") # undefined
    \/ Get(change, "deviceTarget") # undefined

\* targetDeviceSetOf falling back to 'windows'.
targetDeviceSetOf_fallbackWindows(change) ==
    LET hasTargets == Get(change, "deviceTarget") # undefined
        targetDeviceSet == IF hasTargets THEN change.deviceTarget ELSE "all"
    IN  IF targetDeviceSet \notin {"windows", "phone", "all"} THEN "windows"
        ELSE targetDeviceSet

\* The device family a qualified change is resolved to (lines 211-215).
targetDeviceSetOf(change) ==
    LET hasTargets == Get(change, "deviceTarget") # undefined
        targetDeviceSet == IF hasTargets THEN change.deviceTarget ELSE "all"
    IN  IF targetDeviceSet \notin {"windows", "phone", "all"} THEN "all"
        ELSE targetDeviceSet

\* pushedForVersion with the version test left out.
pushedForVersion_noVersionTest(change, entry) ==
    IF entry.isArray
    THEN [ k \in 1..Len(entry.files) |-> createReplacement(entry.files[k], change) ]
    ELSE <<createReplacement(entry.files[1], change)>>

\* What the body of knownWindowsVersionsForTargetDeviceSet.forEach pushes for
\* one version key.
pushedForVersion(change, entry) ==
    LET hasVersion == Get(change, "versions") # undefined
    IN  IF hasVersion /\ ~satisfies(entry.winver, change.versions) THEN <<>>
        ELSE IF entry.isArray
             THEN [ k \in 1..Len(entry.files) |-> createReplacement(entry.files[k], change) ]
             ELSE <<createReplacement(entry.files[1], change)>>

\* pushedForVersions going through the version keys from the last to the first.
RECURSIVE pushedForVersions_reversed(_, _, _)
pushedForVersions_reversed(change, entries, k) ==
    IF k > Len(entries) THEN <<>>
    ELSE pushedForVersions_reversed(change, entries, k + 1) \o pushedForVersion(change, entries[k])

RECURSIVE pushedForVersions(_, _, _)
pushedForVersions(change, entries, k) ==
    IF k > Len(entries) THEN <<>>
    ELSE pushedForVersion(change, entries[k]) \o pushedForVersions(change, entries, k + 1)

\* pushedForChange testing the qualifiers before the target, so that a
\* qualified change of another file is demultiplexed too.
pushedForChange_anyTarget(change) ==
    IF ~hasQualifier(change) THEN <<change>>
    ELSE pushedForVersions(change, MANIFESTS[targetDeviceSetOf(change)], 1)

\* What the body of oldChanges.forEach pushes for one change.
pushedForChange(change) ==
    IF Get(change, "target") # PACKAGE_MANIFEST THEN <<change>>
    ELSE IF ~hasQualifier(change) THEN <<change>>
    ELSE pushedForVersions(change, MANIFESTS[targetDeviceSetOf(change)], 1)

\* oldChanges.forEach(...): the new changes array.
RECURSIVE demux(_, _)
demux(oldChanges, i) ==
    IF i > Len(oldChanges) THEN <<>>
    ELSE pushedForChange(oldChanges[i]) \o demux(oldChanges, i + 1)

\* An argument that is an array or is not given: [given, items].
undefinedArray == [ given |-> FALSE, items |-> <<>> ]
Array(items) == [ given |-> TRUE, items |-> items ]

\* generate_plugin_config_munge that leaves edit_config_changes to the base
\* class and demultiplexes the plugin's changes only.
generate_plugin_config_munge_editConfigPassedOn(changes, edit_config_changes) ==
    IF \E k \in 1..Len(changes) : hasQualifier(changes[k])
    THEN [ callerChanges |-> changes,
           changes |-> demux(changes, 1),
           edit_config_changes |-> edit_config_changes ]
    ELSE [ callerChanges |-> changes,
           changes |-> changes,
           edit_config_changes |-> edit_config_changes ]

\* generate_plugin_config_munge (whitelist variant, lines 177-257): the caller's
\* changes array as the call leaves it, and the arguments of the one call of
\* the base class' generate_plugin_config_munge.
generate_plugin_config_munge(changes, edit_config_changes) ==
    LET pushed == IF edit_config_changes.given
                  THEN changes \o edit_config_changes.items
                  ELSE changes
    IN  IF \E k \in 1..Len(pushed) : hasQualifier(pushed[k])
        THEN [ callerChanges |-> pushed,
               changes |-> demux(pushed, 1),
               edit_config_changes |-> undefinedArray ]
        ELSE [ callerChanges |-> pushed,
               changes |-> pushed,
               edit_config_changes |-> edit_config_changes ]

(***************************************************************************)
(* apply_file_munge                                                        *)
(* A munge is [parents |-> a function from its selectors to change lists]. *)
(* A base call is a record [file, munge, remove, threw] of the arguments   *)
(* of one call of the base class' apply_file_munge and of whether it       *)
(* threw.                                                                  *)
(***************************************************************************)
\* cloneObject: a new object with a clone of every key; on a munge, a new
\* munge with the same selectors, lists and change fields.
cloneObject(munge) ==
    [ parents |->
        [ selector \in DOMAIN munge.parents |->
            [ i \in 1..Len(munge.parents[selector]) |->
                [ key \in DOMAIN munge.parents[selector][i] |->
                    munge.parents[selector][i][key] ] ] ] ]

\* normalizedCapabilities with the prefixes added on install only.
normalizedCapabilities_prefixOnInstallOnly(file, capabilities, remove) ==
    IF ~remove
    THEN sortCapabilities(getUniqueCapabilities(
             IF file = WINDOWS10_MANIFEST THEN generateUapCapabilities(capabilities)
                                          ELSE capabilities))
    ELSE capabilities

\* The capability list apply_file_munge (whitelist variant) puts back under
\* CAPS_SELECTOR (lines 62-74).
normalizedCapabilities(file, capabilities, remove) ==
    LET prefixed == IF file = WINDOWS10_MANIFEST
                    THEN generateUapCapabilities(capabilities)
                    ELSE capabilities
    IN  IF ~remove THEN sortCapabilities(getUniqueCapabilities(prefixed))
        ELSE prefixed

normalizedCapabilitiesThrows(file, capabilities, remove) ==
    \/ file = WINDOWS10_MANIFEST /\ generateUapCapabilitiesThrows(capabilities)
    \/ /\ ~remove
       /\ LET prefixed == IF file = WINDOWS10_MANIFEST
                          THEN generateUapCapabilities(capabilities)
                          ELSE capabilities
          IN  \/ getUniqueCapabilitiesThrows(prefixed)
              \/ sortCapabilitiesThrows(getUniqueCapabilities(prefixed))

\* var mungeCopy = munge: mungeCopy is the caller's object.
mungeCopyOf_noCopy(munge) == [ callersParents |-> TRUE, value |-> munge ]

\* var mungeCopy = cloneObject(munge) (line 59): mungeCopy is a new object and
\* so is its parents object; neither is the caller's.
mungeCopyOf(munge) == [ callersParents |-> FALSE, value |-> cloneObject(munge) ]

\* The base call made without the remove argument, which then reads as false.
baseCall_withoutRemove(file, munge, remove, ordinal, fails) ==
    [ file |-> file, munge |-> munge, remove |-> FALSE, threw |-> ordinal \in fails ]

\* One call of the base class' apply_file_munge: its arguments, and whether it
\* throws. fails is the set of the base calls that throw, counted from 1
\* within one apply_file_munge call.
baseCall(file, munge, remove, ordinal, fails) ==
    [ file |-> file, munge |-> munge, remove |-> remove, threw |-> ordinal \in fails ]

\* apply_file_munge of the whitelist variant (lines 56-78): whether it throws,
\* the base calls it makes, and the caller's munge object as it leaves it.
apply_file_munge(file, munge, remove, fails) ==
    LET mungeCopy == mungeCopyOf(munge)
    IN  IF CAPS_SELECTOR \notin DOMAIN mungeCopy.value.parents
        THEN [ threw |-> 1 \in fails,
               calls |-> << baseCall(file, mungeCopy.value, remove, 1, fails) >>,
               munge |-> munge ]
        ELSE IF normalizedCapabilitiesThrows(file, mungeCopy.value.parents[CAPS_SELECTOR], remove)
        THEN [ threw |-> TRUE, calls |-> <<>>, munge |-> munge ]
        ELSE LET written == [ parents |->
                                [ mungeCopy.value.parents EXCEPT ![CAPS_SELECTOR] =
                                    normalizedCapabilities(file, @, remove) ] ]
             IN  [ threw |-> 1 \in fails,
                   calls |-> << baseCall(file, written, remove, 1, fails) >>,
                   munge |-> IF mungeCopy.callersParents THEN written ELSE munge ]

\* apply_file_munge of the legacy variant that makes the second base call
\* although the first has thrown.
apply_file_munge_legacy_secondCallAnyway(file, munge, remove, fails) ==
    IF remove /\ file = WINDOWS10_MANIFEST
    THEN [ threw |-> (1 \in fails) \/ (2 \in fails),
           calls |-> << baseCall(file, munge, remove, 1, fails),
                        baseCall(file, generateUapCapabilitiesLegacy(munge), remove, 2, fails) >>,
           munge |-> munge ]
    ELSE [ threw |-> 1 \in fails,
           calls |-> << baseCall(file, munge, remove, 1, fails) >>,
           munge |-> munge ]

\* apply_file_munge of the legacy variant with the two base calls of a removal
\* the other way round.
apply_file_munge_legacy_prefixedFirst(file, munge, remove, fails) ==
    IF 1 \in fails \/ ~(remove /\ file = WINDOWS10_MANIFEST)
    THEN [ threw |-> 1 \in fails,
           calls |-> << baseCall(file, munge, remove, 1, fails) >>,
           munge |-> munge ]
    ELSE [ threw |-> 2 \in fails,
           calls |-> << baseCall(file, generateUapCapabilitiesLegacy(munge), remove, 1, fails),
                        baseCall(file, munge, remove, 2, fails) >>,
           munge |-> munge ]

\* apply_file_munge of the legacy variant (lines 311-324): the base call with
\* the caller's munge and, if that returns, on a removal from the Windows 10
\* manifest the base call with the prefixed munge.
apply_file_munge_legacy(file, munge, remove, fails) ==
    IF 1 \in fails \/ ~(remove /\ file = WINDOWS10_MANIFEST)
    THEN [ threw |-> 1 \in fails,
           calls |-> << baseCall(file, munge, remove, 1, fails) >>,
           munge |-> munge ]
    ELSE [ threw |-> 2 \in fails,
           calls |-> << baseCall(file, munge, remove, 1, fails),
                        baseCall(file, generateUapCapabilitiesLegacy(munge), remove, 2, fails) >>,
           munge |-> munge ]

(***************************************************************************)
(* The base class' apply_file_munge on the manifest. The manifest is, for  *)
(* every selector, the list of the xml fragments under it.                 *)
(***************************************************************************)
\* graft: the fragment is added at the end unless an equal one is there.
graft(children, xml) ==
    IF \E k \in 1..Len(children) : children[k] = xml THEN children
    ELSE Append(children, xml)

\* prune: the first fragment equal to xml is taken out, if there is one.
prune(children, xml) ==
    LET at == { k \in 1..Len(children) : children[k] = xml }
    IN  IF at = {} THEN children
        ELSE SubSeq(children, 1, Min(at) - 1) \o SubSeq(children, Min(at) + 1, Len(children))

RECURSIVE applyChanges(_, _, _, _)
applyChanges(children, changes, i, remove) ==
    IF i > Len(changes) THEN children
    ELSE applyChanges(IF remove THEN prune(children, changes[i].xml)
                                ELSE graft(children, changes[i].xml),
                      changes, i + 1, remove)

\* One base call: every change of every selector of the munge is grafted, or
\* pruned when remove is set. A call that throws leaves the file as it is.
baseApply(contents, call) ==
    [ selector \in DOMAIN contents |->
        IF ~call.threw /\ selector \in DOMAIN call.munge.parents
        THEN applyChanges(contents[selector], call.munge.parents[selector], 1, call.remove)
        ELSE contents[selector] ]

RECURSIVE baseApplyAll(_, _, _)
baseApplyAll(contents, calls, i) ==
    IF i > Len(calls) THEN contents
    ELSE baseApplyAll(baseApply(contents, calls[i]), calls, i + 1)

(***************************************************************************)
(* cordova.js: channels (cordova/channel and the bootstrap script)         *)
(* The page is a record that every operation takes and gives back:         *)
(*   channel                   the Channel object of every channel name    *)
(*   deviceReadyChannelsArray  the names of the channels deviceready waits *)
(*                             for                                         *)
(*   nextGuid, observer_guid   the guid counter and every function's guid  *)
(*                             (0: none yet)                               *)
(*   joins                     for every channel.join call so far, its     *)
(*                             arguments h and c, its counter i, the       *)
(*                             number of calls of h and whether it threw   *)
(*   called                    the calls of the subscribers' functions     *)
(*   timeouts                  the document events waiting in setTimeout   *)
(*   documentEvents            the document events fired so far            *)
(*   plugins                   the features that the modules loaded by     *)
(*                             platform.initialize wait for                *)
(* A Channel's handlers are the guids of the functions it holds. A function *)
(* is [kind, id]: a subscriber's function "g", or the function f of the    *)
(* join call number id.                                                    *)
(***************************************************************************)
StickyChannels ==
    { "onDOMContentLoaded", "onNativeReady", "onCordovaReady", "onCordovaInfoReady",
      "onCordovaConnectionReady", "onPluginsReady", "onDeviceReady", "onDestroy" }

NonStickyChannels == { "onResume", "onPause" }

ChannelNames == StickyChannels \cup NonStickyChannels

\* new Channel(type, sticky)
Channel(type, sticky) ==
    [ type |-> type, handlers |-> {}, state |-> IF sticky THEN 1 ELSE 0,
      fireArgs |-> null, numHandlers |-> 0 ]

UserFunction(n) == [ kind |-> "g", id |-> n ]

\* The function f that the join call number k subscribes.
JoinFunction(k) == [ kind |-> "f", id |-> k ]

\* The handlers of a channel in the order of their keys.
RECURSIVE toCallOf(_)
toCallOf(handlers) ==
    IF handlers = {} THEN <<>>
    ELSE LET guid == Min(handlers)
         IN  <<guid>> \o toCallOf(handlers \ {guid})

\* handlers[guid]
handlerOf(w, guid) == CHOOSE fn \in DOMAIN w.observer_guid : w.observer_guid[fn] = guid

\* waitForInitialization that does not register the feature's channel.
waitForInitialization_notRegistered(w, feature) == w

\* channel.waitForInitialization(feature), of a feature that has a channel
waitForInitialization(w, feature) ==
    [ w EXCEPT !.deviceReadyChannelsArray = Append(@, feature) ]

RECURSIVE waitForEvery(_, _, _)
waitForEvery(w, features, j) ==
    IF j > Len(features) THEN w
    ELSE waitForEvery(waitForInitialization(w, features[j]), features, j + 1)

\* cordova.fireDocumentEvent(type), of a type that has a document event
\* handler: the channel fires in a timeout.
fireDocumentEvent(w, type) ==
    [ w EXCEPT !.timeouts = Append(@, type), !.documentEvents = Append(@, type) ]

\* require('cordova/platform').initialize(): the modules it loads register
\* the features they wait for.
initialize(w) == waitForEvery(w, w.plugins, 1)

RECURSIVE call(_, _, _, _)
RECURSIVE callAll(_, _, _, _, _)
RECURSIVE subscribe(_, _, _)
RECURSIVE fire(_, _, _)
RECURSIVE joinLoop(_, _, _)
RECURSIVE join(_, _, _)
RECURSIVE joinH(_, _)

\* h(), the first argument of the join call number k: a caller's function,
\* the bootstrap script's function that creates the cordova objects, or its
\* function that fires deviceready.
joinH(w, k) ==
    LET h == w.joins[k].h
        w1 == [ w EXCEPT !.joins[k].calls = @ + 1 ]
        w2 == fire(initialize(w1), "onCordovaReady", <<>>)
    IN  CASE h = "createObjects" -> join(w2, "deviceready", w2.deviceReadyChannelsArray)
          [] h = "deviceready" -> fireDocumentEvent(w1, "deviceready")
          [] OTHER -> w1

\* fn.apply(this, args)
call(w, fn, this, args) ==
    IF fn.kind = "g"
    THEN [ w EXCEPT !.called = Append(@, [ f |-> fn, this |-> this, args |-> args ]) ]
    ELSE LET w1 == [ w EXCEPT !.joins[fn.id].i = @ - 1 ]
         IN  IF w1.joins[fn.id].i = 0 THEN joinH(w1, fn.id) ELSE w1

callAll(w, toCall, this, args, i) ==
    IF i > Len(toCall) THEN w
    ELSE callAll(call(w, handlerOf(w, toCall[i]), this, args), toCall, this, args, i + 1)

\* channel[name].subscribe(f)
subscribe(w, name, f) ==
    IF w.channel[name].state = 2
    THEN call(w, f, name, w.channel[name].fireArgs)
    ELSE LET guid == IF w.observer_guid[f] = 0 THEN w.nextGuid ELSE w.observer_guid[f]
             w1 == [ w EXCEPT !.nextGuid = IF w.observer_guid[f] = 0 THEN @ + 1 ELSE @,
                              !.observer_guid[f] = guid ]
         IN  IF guid \notin w1.channel[name].handlers
             THEN [ w1 EXCEPT !.channel[name].handlers = @ \cup {guid},
                              !.channel[name].numHandlers = @ + 1 ]
             ELSE w1

\* fire, remembering the arguments of every fire of a sticky channel.
fire_lastArgs(w, name, args) ==
    LET w1 == IF w.channel[name].state # 0
              THEN [ w EXCEPT !.channel[name].state = 2,
                              !.channel[name].fireArgs = args ]
              ELSE w
    IN  IF w1.channel[name].numHandlers # 0
        THEN LET w2 == callAll(w1, toCallOf(w1.channel[name].handlers), name, args, 1)
             IN  IF w2.channel[name].state = 2 /\ w2.channel[name].numHandlers # 0
                 THEN [ w2 EXCEPT !.channel[name].numHandlers = 0,
                                  !.channel[name].handlers = {} ]
                 ELSE w2
        ELSE w1

\* channel[name].fire.apply(channel[name], args)
fire(w, name, args) ==
    LET w1 == IF w.channel[name].state = 1
              THEN [ w EXCEPT !.channel[name].state = 2,
                              !.channel[name].fireArgs = args ]
              ELSE w
    IN  IF w1.channel[name].numHandlers # 0
        THEN LET w2 == callAll(w1, toCallOf(w1.channel[name].handlers), name, args, 1)
             IN  IF w2.channel[name].state = 2 /\ w2.channel[name].numHandlers # 0
                 THEN [ w2 EXCEPT !.channel[name].numHandlers = 0,
                                  !.channel[name].handlers = {} ]
                 ELSE w2
        ELSE w1

\* The loop of channel.join over c from position j on, and the call of h
\* for an empty c.
joinLoop(w, k, j) ==
    LET c == w.joins[k].c
    IN  IF j > Len(c)
        THEN IF Len(c) = 0 THEN joinH(w, k) ELSE w
        ELSE IF w.channel[c[j]].state = 0
             THEN [ w EXCEPT !.joins[k].threw = TRUE ]
             ELSE joinLoop(subscribe(w, c[j], JoinFunction(k)), k, j + 1)

\* channel.join(h, c)
join(w, h, c) ==
    joinLoop([ w EXCEPT !.joins = Append(@, [ h |-> h, c |-> c, i |-> Len(c),
                                             calls |-> 0, threw |-> FALSE ]) ],
             Len(w.joins) + 1, 1)

\* The bootstrap script: onNativeReady fires when the native side has set
\* _nativeReady, the join that creates the cordova objects, the plugin
\* loader, which fires onPluginsReady at once when there is nothing to wait
\* for, and bootstrap-windows8.js.
bootstrap(w, nativeReady, pluginsReady) ==
    LET w1 == IF nativeReady THEN fire(w, "onNativeReady", <<>>) ELSE w
        w2 == join(w1, "createObjects", << "onNativeReady", "onPluginsReady" >>)
        w3 == IF pluginsReady THEN fire(w2, "onPluginsReady", <<>>) ELSE w2
    IN  fire(w3, "onNativeReady", <<>>)

(***************************************************************************)
(* cordova.js: the callbacks of exec (cordova and cordova/exec)            *)
(* The registry is a record [callbacks, callbackId, delivered, errors]:    *)
(* cordova.callbacks, the counter cordova.callbackId, the calls of the     *)
(* callers' functions, and the errors that callbackSuccess and             *)
(* callbackError wrote to the console. A caller's function is undefined,   *)
(* "returns" or "throws"; a callback id is the text of the service name    *)
(* followed by the digits of the counter.                                  *)
(***************************************************************************)
NO_RESULT == 0
OK == 1
ERROR == 9

RECURSIVE NumberString(_)
NumberString(n) ==
    IF n < 10 THEN << Digits[n + 1] >>
    ELSE NumberString(n \div 10) \o << Digits[(n % 10) + 1] >>

\* The function of the callback that a result is for, if any.
resultFunction(success, status) ==
    IF success /\ status = OK THEN "success"
    ELSE IF ~success THEN "fail"
    ELSE "none"

\* cordova.callbackFromNative(callbackId, success, status, args, keepCallback);
\* threw tells whether the call threw.
callbackFromNative(r, callbackId, success, status, args, keepCallback) ==
    IF callbackId \notin DOMAIN r.callbacks THEN [ r |-> r, threw |-> FALSE ]
    ELSE LET callback == r.callbacks[callbackId]
             which == resultFunction(success, status)
             fn == IF which = "none" THEN undefined ELSE callback[which]
             r1 == IF fn # undefined
                   THEN [ r EXCEPT !.delivered = Append(@, [ callbackId |-> callbackId,
                                                             function |-> which,
                                                             args |-> args ]) ]
                   ELSE r
         IN  IF fn = "throws" THEN [ r |-> r1, threw |-> TRUE ]
             ELSE IF ~keepCallback
             THEN [ r |-> [ r1 EXCEPT !.callbacks =
                                [ id \in (DOMAIN r1.callbacks) \ {callbackId} |-> r1.callbacks[id] ] ],
                    threw |-> FALSE ]
             ELSE [ r |-> r1, threw |-> FALSE ]

\* cordova.callbackSuccess(callbackId, args) and cordova.callbackError(callbackId, args)
callbackResult(r, callbackId, success, args) ==
    LET res == callbackFromNative(r, callbackId, success, args.status, << args.message >>,
                                  args.keepCallback)
    IN  IF res.threw
        THEN [ res.r EXCEPT !.errors = Append(@, callbackId) ]
        ELSE res.r

\* exec(success, fail, service, action, args); proxy tells whether the
\* service has a proxy, which then gets the functions onSuccess and onError
\* of the new callback id. Without a proxy, fail is called at once.
exec(r, success, fail, service, proxy) ==
    LET callbackId == service \o NumberString(r.callbackId)
        r1 == [ r EXCEPT !.callbackId = @ + 1 ]
    IN  IF proxy
        THEN IF success # undefined \/ fail # undefined
             THEN [ r1 EXCEPT !.callbacks =
                        (callbackId :> [ success |-> success, fail |-> fail ]) @@ @ ]
             ELSE r1
        ELSE IF fail # undefined
             THEN [ r EXCEPT !.delivered = Append(@, [ callbackId |-> <<>>,
                                                       function |-> "fail",
                                                       args |-> << "Missing Command Error" >> ]) ]
             ELSE r

\* onSuccess(result) of exec
onSuccess(r, callbackId, result) ==
    callbackResult(r, callbackId, TRUE,
                   [ status |-> OK, message |-> result, keepCallback |-> FALSE ])

\* onError(err) of exec
onError(r, callbackId, err) ==
    callbackResult(r, callbackId, FALSE,
                   [ status |-> ERROR, message |-> err, keepCallback |-> FALSE ])

(***************************************************************************)
(* Inputs                                                                  *)
(***************************************************************************)
MaxCaps == 3
MaxCalls == 2

OTHER_SELECTOR == "/Package/Properties"
Selectors == { CAPS_SELECTOR, OTHER_SELECTOR }

Change(xml) == [ xml |-> xml, count |-> 1, before |-> undefined ]

\* The changes a munge may hold under CAPS_SELECTOR.
CapabilityChanges ==
    { Change(X_webcam), Change(X_webcamId), Change(X_chat),
      Change(X_Location), Change(X_deviceWebcam), Change(X_noName) }

SeqsUpTo(S, n) == UNION { [1..k -> S] : k \in 0..n }

\* The munges apply_file_munge is called with.
Munges ==
    { [ parents |-> (CAPS_SELECTOR :> caps) ] : caps \in SeqsUpTo(CapabilityChanges, MaxCaps) }
    \cup { [ parents |-> (CAPS_SELECTOR :> caps) @@ (OTHER_SELECTOR :> <<Change(X_displayName)>>) ] :
             caps \in SeqsUpTo(CapabilityChanges, 1) }
    \cup { [ parents |-> (OTHER_SELECTOR :> <<Change(X_displayName)>>) ],
           [ parents |-> (OTHER_SELECTOR :> <<Change(X_displayName), Change(X_webcam)>>) ] }

\* The capability lists the manifest may hold before the first call.
StartCapabilities ==
    { <<>>, <<X_Location>>, <<X_uapChat, X_webcamId>> }

Files == { WINDOWS10_MANIFEST, PHONE_MANIFEST }
Variants == { "whitelist", "legacy" }

\* The changes getUniqueCapabilities and sort are tried on: each has a Name.
NamedCapabilityChanges ==
    { Change(X_webcam), Change(X_webcamId), Change(X_chat), Change(X_contacts),
      Change(X_Location), Change(X_deviceWebcam) }

\* A change with a count and an anchor of its own.
ChangeWith(xml, count, before) == [ xml |-> xml, count |-> count, before |-> before ]

\* The changes generateUapCapabilities is tried on: <Capability> changes with
\* names in and out of CapsNeedUapPrefix, and changes of other elements.
PrefixerChanges ==
    { Change(X_webcam), Change(X_chat), ChangeWith(X_chatPair, 2, "Capability"),
      ChangeWith(X_Location, 3, "DeviceCapability"), Change(X_contacts),
      Change(X_deviceWebcam), Change(X_uapChat), Change(X_displayName) }

MaxLen == 3
MaxOps == 3

\* The changes of a plugin's config-file elements and of edit-config.
ConfigChange(target, versions, deviceTarget) ==
    [ target |-> target, parent |-> CAPS_SELECTOR, after |-> "Capability",
      xmls |-> "<Capability Name=\"webcam\"/>",
      versions |-> versions, deviceTarget |-> deviceTarget ]

\* A change without the fields versions and deviceTarget.
PlainChange(target, parent) ==
    [ target |-> target, parent |-> parent, xmls |-> "<DisplayName>App</DisplayName>" ]

\* A change that also has the fields xml, count and before of the Change model.
ModelChange(target, versions, deviceTarget) ==
    [ target |-> target, parent |-> CAPS_SELECTOR, before |-> "Capability",
      xml |-> "<Capability Name=\"chat\"/>", count |-> "1",
      versions |-> versions, deviceTarget |-> deviceTarget ]

Ranges == { undefined, "10.0.0", ">=8.1.0", "<10.0.0", ">=11.0.0", "^10.0.0" }
DeviceTargets == { undefined, "windows", "phone", "all", "bogus" }

ConfigChanges ==
    { ConfigChange(PACKAGE_MANIFEST, r, d) : r \in Ranges, d \in DeviceTargets }
    \cup { ConfigChange("config.xml", "10.0.0", "phone"),
           ConfigChange(WINDOWS10_MANIFEST, "<10.0.0", undefined),
           PlainChange(PACKAGE_MANIFEST, "/Package/Properties"),
           PlainChange("config.xml", "/*"),
           ModelChange(PACKAGE_MANIFEST, "10.0.0", "all"),
           ModelChange(PACKAGE_MANIFEST, undefined, "bogus") }

EditConfigChanges ==
    { undefinedArray, Array(<<>>),
      Array(<<ConfigChange(PACKAGE_MANIFEST, "^10.0.0", "windows")>>),
      Array(<<ConfigChange(PACKAGE_MANIFEST, undefined, "all")>>),
      Array(<<PlainChange(PACKAGE_MANIFEST, "/Package/Properties")>>) }

MaxChanges == 2
MaxGenerate == 1

MaxSteps == 4

\* The subscribers' functions.
UserFunctions == { UserFunction(1), UserFunction(2) }

\* The functions of a page: the subscribers' and those of the join calls.
Functions == UserFunctions \cup { JoinFunction(k) : k \in 1..(MaxSteps + 2) }

\* No function, in an entry of trace.
NoFunction == UserFunction(0)

\* The channels that subscribe and fire are tried on.
TriedChannels == { "onNativeReady", "onPluginsReady", "onResume" }

\* The arguments fire is tried with.
Events == { "a", "b" }

\* The second argument of the join calls tried.
JoinArguments ==
    { <<>>, << "onNativeReady" >>, << "onNativeReady", "onPluginsReady" >>,
      << "onPluginsReady", "onNativeReady" >>, << "onNativeReady", "onNativeReady" >>,
      << "onNativeReady", "onResume" >> }

\* The channels that the page's events and the plugins fire during startup.
StartupChannels ==
    { "onDOMContentLoaded", "onNativeReady", "onPluginsReady", "onCordovaReady",
      "onCordovaInfoReady", "onCordovaConnectionReady" }

\* The features that plugins wait for.
Features == { "onCordovaInfoReady" }

MaxCallbackSteps == 4

Request(success, fail, service, proxy) ==
    [ success |-> success, fail |-> fail, service |-> service, proxy |-> proxy ]

\* The exec calls tried: a caller's function is undefined, returns or throws,
\* and the service has a proxy or not.
Requests ==
    { Request("returns", "returns", <<"D">>, TRUE),
      Request("throws", "returns", <<"D">>, TRUE),
      Request("returns", undefined, <<"D", "1">>, TRUE),
      Request(undefined, undefined, <<"D">>, TRUE),
      Request(undefined, "returns", <<"D">>, FALSE) }

NativeResult(success, status, keepCallback) ==
    [ success |-> success, status |-> status, keepCallback |-> keepCallback ]

\* The results native code calls callbackFromNative with.
NativeResults ==
    { NativeResult(TRUE, OK, TRUE), NativeResult(TRUE, OK, FALSE),
      NativeResult(FALSE, ERROR, FALSE), NativeResult(TRUE, NO_RESULT, FALSE) }

\* The values of cordova.callbackId when the page starts.
StartIds == { 1, 9 }

(***************************************************************************)
(* State                                                                   *)
(***************************************************************************)
VARIABLES
    \* the munger at work on one manifest file
    variant,    \* which of the two PlatformMunger implementations is loaded
    file,       \* the manifest file the calls are about
    munge,      \* the caller's munge object
    start,      \* the manifest's contents before the first call
    manifest,   \* the manifest's contents
    history,    \* the remove flags of the apply_file_munge calls made so far
    threw,      \* whether the last apply_file_munge call threw
    delegated,  \* the base calls the last apply_file_munge call made
    \* the capability list functions at work on one list
    capsInput,  \* the list at the start
    caps,       \* the list now
    capsPrev,   \* the list before the last operation
    ops,        \* the operations applied so far
    \* generate_plugin_config_munge
    changes,    \* the caller's changes array
    edit_config_changes,    \* the caller's edit_config_changes argument
    generated,  \* the result of each generate_plugin_config_munge call so far
    \* cordova.js: the channels of a page
    channel,    \* the Channel object of every channel name
    deviceReadyChannelsArray,   \* the names of the channels deviceready waits for
    nextGuid,   \* the guid of the next function subscribed for the first time
    observer_guid,  \* every function's guid (0: none yet)
    joins,      \* the channel.join calls so far
    called,     \* the calls of the subscribers' functions so far
    timeouts,   \* the document events waiting in setTimeout
    documentEvents, \* the document events fired so far
    plugins,    \* the features the modules loaded by platform.initialize wait for
    bootstrapped,   \* whether the bootstrap script has run
    awaited,    \* the features registered before platform.initialize returned
    trace,      \* the operations of the page's scripts and events so far
    \* cordova.js: the callbacks of exec
    callbacks,  \* cordova.callbacks
    callbackId, \* cordova.callbackId
    delivered,  \* the calls of the callers' success and fail functions so far
    errors,     \* the callback ids of the errors written to the console
    proxied,    \* the callback ids whose onSuccess and onError a proxy holds
    execs,      \* the number of exec calls so far
    results     \* the callbackFromNative calls so far

mungerVars == << variant, file, munge, start, manifest, history, threw, delegated >>
capsVars == << capsInput, caps, capsPrev, ops >>
demuxVars == << changes, edit_config_changes, generated >>
channelVars == << channel, deviceReadyChannelsArray, nextGuid, observer_guid, joins,
                 called, timeouts, documentEvents, plugins, bootstrapped, awaited, trace >>
callbackVars == << callbacks, callbackId, delivered, errors, proxied, execs, results >>
cordovaVars == << channelVars, callbackVars >>
vars == << mungerVars, capsVars, demuxVars, cordovaVars >>

(***************************************************************************)
(* The munger at work on one manifest file                                 *)
(***************************************************************************)
MungerInit ==
    /\ variant \in Variants
    /\ file \in Files
    /\ munge \in Munges
    /\ \E capabilities \in StartCapabilities :
          start = (CAPS_SELECTOR :> capabilities) @@ (OTHER_SELECTOR :> <<>>)
    /\ manifest = start
    /\ history = <<>>
    /\ threw = FALSE
    /\ delegated = <<>>

\* The munger is not used.
MungerIdle ==
    /\ variant = "whitelist"
    /\ file = WINDOWS10_MANIFEST
    /\ munge = [ parents |-> (CAPS_SELECTOR :> <<>>) ]
    /\ start = (CAPS_SELECTOR :> <<>>) @@ (OTHER_SELECTOR :> <<>>)
    /\ manifest = start
    /\ history = <<>>
    /\ threw = FALSE
    /\ delegated = <<>>

\* this.apply_file_munge(file, munge, remove), with the base calls in fails
\* throwing.
ApplyFileMunge(remove, fails) ==
    /\ Len(history) < MaxCalls
    /\ LET r == IF variant = "whitelist"
                THEN apply_file_munge(file, munge, remove, fails)
                ELSE apply_file_munge_legacy(file, munge, remove, fails)
       IN  /\ threw' = r.threw
           /\ delegated' = r.calls
           /\ manifest' = baseApplyAll(manifest, r.calls, 1)
           /\ munge' = r.munge
    /\ history' = Append(history, remove)
    /\ UNCHANGED << variant, file, start, capsVars, demuxVars, cordovaVars >>

Install == ApplyFileMunge(FALSE, {})

Uninstall == ApplyFileMunge(TRUE, {})

\* An install during which the base class' apply_file_munge throws.
InstallFailing == \E fails \in (SUBSET {1, 2}) \ {{}} : ApplyFileMunge(FALSE, fails)

\* A removal during which the base class' apply_file_munge throws.
UninstallFailing == \E fails \in (SUBSET {1, 2}) \ {{}} : ApplyFileMunge(TRUE, fails)

(***************************************************************************)
(* The capability list functions at work on one list                      *)
(***************************************************************************)
CapsInit ==
    /\ capsInput \in SeqsUpTo(NamedCapabilityChanges, MaxLen)
    /\ caps = capsInput
    /\ capsPrev = capsInput
    /\ ops = <<>>

CapsIdle ==
    /\ capsInput = <<>>
    /\ caps = <<>>
    /\ capsPrev = <<>>
    /\ ops = <<>>

CapsStep(op, result) ==
    /\ Len(ops) < MaxOps
    /\ caps' = result
    /\ capsPrev' = caps
    /\ ops' = Append(ops, op)
    /\ UNCHANGED << capsInput, mungerVars, demuxVars, cordovaVars >>

\* caps = getUniqueCapabilities(caps)
Dedupe == ~getUniqueCapabilitiesThrows(caps)
          /\ CapsStep("dedupe", getUniqueCapabilities(caps))

\* caps = caps.sort(compareCapabilities)
Sort == ~sortCapabilitiesThrows(caps)
        /\ CapsStep("sort", sortCapabilities(caps))

\* The caller hands over a deduplicated list in another order.
Reorder ==
    /\ ops # <<>>
    /\ ops[Len(ops)] = "dedupe"
    /\ \E p \in [1..Len(caps) -> 1..Len(caps)] :
        /\ \A i, j \in 1..Len(caps) : p[i] = p[j] => i = j
        /\ \E i \in 1..Len(caps) : p[i] # i
        /\ CapsStep("reorder", [ i \in 1..Len(caps) |-> caps[p[i]] ])

\* The capability list functions at work on a list of any changes.
PrefixerInit ==
    /\ capsInput \in SeqsUpTo(PrefixerChanges, MaxLen)
    /\ caps = capsInput
    /\ capsPrev = capsInput
    /\ ops = <<>>

\* caps = generateUapCapabilities(caps)
Prefix == ~generateUapCapabilitiesThrows(caps)
          /\ CapsStep("prefix", generateUapCapabilities(caps))

(***************************************************************************)
(* generate_plugin_config_munge                                            *)
(***************************************************************************)
DemuxInit ==
    /\ changes \in SeqsUpTo(ConfigChanges, MaxChanges)
    /\ edit_config_changes \in EditConfigChanges
    /\ generated = <<>>

DemuxIdle ==
    /\ changes = <<>>
    /\ edit_config_changes = undefinedArray
    /\ generated = <<>>

\* this.generate_plugin_config_munge(changes, vars, edit_config_changes)
GeneratePluginConfigMunge ==
    /\ Len(generated) < MaxGenerate
    /\ LET r == generate_plugin_config_munge(changes, edit_config_changes)
       IN  /\ changes' = r.callerChanges
           /\ generated' = Append(generated, [ input |-> changes,
                                               changes |-> r.changes,
                                               edit_config_changes |-> r.edit_config_changes ])
    /\ UNCHANGED << edit_config_changes, mungerVars, capsVars, cordovaVars >>

(***************************************************************************)
(* cordova.js: the channels of a page                                      *)
(***************************************************************************)
Page ==
    [ channel |-> channel, deviceReadyChannelsArray |-> deviceReadyChannelsArray,
      nextGuid |-> nextGuid, observer_guid |-> observer_guid, joins |-> joins,
      called |-> called, timeouts |-> timeouts, documentEvents |-> documentEvents,
      plugins |-> plugins ]

PageBecomes(w) ==
    /\ channel' = w.channel
    /\ deviceReadyChannelsArray' = w.deviceReadyChannelsArray
    /\ nextGuid' = w.nextGuid
    /\ observer_guid' = w.observer_guid
    /\ joins' = w.joins
    /\ called' = w.called
    /\ timeouts' = w.timeouts
    /\ documentEvents' = w.documentEvents
    /\ plugins' = w.plugins

PageIs(w) ==
    /\ channel = w.channel
    /\ deviceReadyChannelsArray = w.deviceReadyChannelsArray
    /\ nextGuid = w.nextGuid
    /\ observer_guid = w.observer_guid
    /\ joins = w.joins
    /\ called = w.called
    /\ timeouts = w.timeouts
    /\ documentEvents = w.documentEvents
    /\ plugins = w.plugins

\* The page when the modules cordova/channel and cordova are loaded: the
\* channels are created, and three of them are registered to be waited for.
NewPage(features) ==
    waitForEvery([ channel |-> [ name \in ChannelNames |-> Channel(name, name \in StickyChannels) ],
                   deviceReadyChannelsArray |-> <<>>,
                   nextGuid |-> 1,
                   observer_guid |-> [ fn \in Functions |-> 0 ],
                   joins |-> <<>>, called |-> <<>>, timeouts |-> <<>>,
                   documentEvents |-> <<>>, plugins |-> features ],
                 << "onCordovaReady", "onCordovaConnectionReady", "onDOMContentLoaded" >>, 1)

\* An entry of trace.
Operation(op, name, f, args, c) ==
    [ op |-> op, name |-> name, f |-> f, args |-> args, c |-> c ]

\* A page whose scripts subscribe, fire and join at will.
ChannelInit ==
    /\ PageIs(NewPage(<<>>))
    /\ bootstrapped = FALSE
    /\ awaited = {}
    /\ trace = <<>>

\* No page is loaded.
ChannelIdle == ChannelInit

\* A page at the start of the bootstrap script: the modules that
\* platform.initialize loads wait for onCordovaInfoReady or for nothing, and
\* the cordova module has fired onDOMContentLoaded if the document was
\* already parsed.
StartupInit ==
    /\ \E features \in { <<>>, << "onCordovaInfoReady" >> }, parsed \in BOOLEAN :
          PageIs(IF parsed THEN fire(NewPage(features), "onDOMContentLoaded", <<>>)
                 ELSE NewPage(features))
    /\ bootstrapped = FALSE
    /\ awaited = {}
    /\ trace = <<>>

\* One operation of a script or an event of the page.
PageStep(w, operation) ==
    /\ Len(trace) < MaxSteps
    /\ PageBecomes(w)
    /\ trace' = Append(trace, operation)
    /\ UNCHANGED << mungerVars, capsVars, demuxVars, callbackVars >>

\* channel[name].subscribe(g)
Subscribe ==
    \E name \in TriedChannels, g \in UserFunctions :
        /\ PageStep(subscribe(Page, name, g), Operation("subscribe", name, g, <<>>, <<>>))
        /\ UNCHANGED << bootstrapped, awaited >>

\* channel[name].fire(e)
Fire ==
    \E name \in TriedChannels, e \in Events :
        /\ PageStep(fire(Page, name, <<e>>),
                    Operation("fire", name, NoFunction, <<e>>, <<>>))
        /\ UNCHANGED << bootstrapped, awaited >>

\* channel.join(h, c)
Join ==
    \E c \in JoinArguments :
        /\ PageStep(join(Page, "h", c),
                    Operation("join", "", NoFunction, <<>>, c))
        /\ UNCHANGED << bootstrapped, awaited >>

\* platform.initialize has returned: the join for deviceready is made.
PlatformInitialized == \E k \in DOMAIN joins : joins[k].h = "deviceready"

\* The bootstrap script runs.
Bootstrap ==
    \E nativeReady, pluginsReady \in BOOLEAN :
        /\ ~bootstrapped
        /\ bootstrapped' = TRUE
        /\ PageBecomes(bootstrap(Page, nativeReady, pluginsReady))
        /\ UNCHANGED << awaited, trace, mungerVars, capsVars, demuxVars, callbackVars >>

\* An event of the page or a plugin fires a channel: the document's
\* DOMContentLoaded, the end of plugin loading, the device's and the
\* network's information, initializationComplete(feature).
ChannelEvent ==
    \E name \in StartupChannels :
        /\ PageStep(fire(Page, name, <<>>),
                    Operation("fire", name, NoFunction, <<>>, <<>>))
        /\ UNCHANGED << bootstrapped, awaited >>

\* channel.waitForInitialization(feature), called by a plugin's module
WaitForInitialization ==
    \E feature \in Features :
        /\ PageStep(waitForInitialization(Page, feature),
                    Operation("waitForInitialization", feature, NoFunction, <<>>, <<>>))
        /\ awaited' = IF PlatformInitialized THEN awaited ELSE awaited \cup {feature}
        /\ UNCHANGED bootstrapped

\* The timeout of fireDocumentEvent runs: the document event's channel fires.
Timeout ==
    /\ timeouts # <<>>
    /\ PageBecomes(fire([ Page EXCEPT !.timeouts = Tail(@) ], "onDeviceReady",
                        << Head(timeouts) >>))
    /\ UNCHANGED << bootstrapped, awaited, trace, mungerVars, capsVars, demuxVars,
                    callbackVars >>

\* document.addEventListener('deviceready', g)
DeviceReadyListener ==
    \E g \in UserFunctions :
        /\ PageStep(subscribe(Page, "onDeviceReady", g),
                    Operation("subscribe", "onDeviceReady", g, <<>>, <<>>))
        /\ UNCHANGED << bootstrapped, awaited >>

(***************************************************************************)
(* cordova.js: the callbacks of exec                                       *)
(***************************************************************************)
Registry ==
    [ callbacks |-> callbacks, callbackId |-> callbackId, delivered |-> delivered,
      errors |-> errors ]

RegistryBecomes(r) ==
    /\ callbacks' = r.callbacks
    /\ callbackId' = r.callbackId
    /\ delivered' = r.delivered
    /\ errors' = r.errors

CallbacksInit ==
    /\ callbacks = [ id \in {} |-> undefined ]
    /\ callbackId \in StartIds
    /\ delivered = <<>>
    /\ errors = <<>>
    /\ proxied = {}
    /\ execs = 0
    /\ results = <<>>

\* exec is not used.
CallbacksIdle ==
    /\ callbacks = [ id \in {} |-> undefined ]
    /\ callbackId = 1
    /\ delivered = <<>>
    /\ errors = <<>>
    /\ proxied = {}
    /\ execs = 0
    /\ results = <<>>

\* exec(success, fail, service, action, args)
Exec ==
    \E request \in Requests :
        /\ execs + Len(results) < MaxCallbackSteps
        /\ execs' = execs + 1
        /\ RegistryBecomes(exec(Registry, request.success, request.fail, request.service,
                                request.proxy))
        /\ proxied' = IF request.proxy
                      THEN proxied \cup { request.service \o NumberString(callbackId) }
                      ELSE proxied
        /\ UNCHANGED << results, mungerVars, capsVars, demuxVars, channelVars >>

\* One result for a callback id; thrown tells whether the caller's function
\* threw.
Result(r, id, success, status, keepCallback, thrown) ==
    /\ execs + Len(results) < MaxCallbackSteps
    /\ RegistryBecomes(r)
    /\ results' = Append(results, [ callbackId |-> id, success |-> success,
                                    status |-> status, keepCallback |-> keepCallback,
                                    threw |-> thrown ])
    /\ UNCHANGED << proxied, execs, mungerVars, capsVars, demuxVars, channelVars >>

\* A proxy calls the onSuccess it was given.
OnSuccess ==
    \E id \in proxied :
        Result(onSuccess(Registry, id, "result"), id, TRUE, OK, FALSE,
               callbackFromNative(Registry, id, TRUE, OK, << "result" >>, FALSE).threw)

\* A proxy calls the onError it was given.
OnError ==
    \E id \in proxied :
        Result(onError(Registry, id, "error"), id, FALSE, ERROR, FALSE,
               callbackFromNative(Registry, id, FALSE, ERROR, << "error" >>, FALSE).threw)

\* cordova.callbackFromNative(callbackId, success, status, args, keepCallback),
\* called by native code
CallbackFromNative ==
    \E id \in proxied, result \in NativeResults :
        LET res == callbackFromNative(Registry, id, result.success, result.status,
                                      << "message" >>, result.keepCallback)
        IN  Result(res.r, id, result.success, result.status, result.keepCallback, res.threw)

(***************************************************************************)
(* Specifications                                                          *)
(***************************************************************************)
Init == MungerInit /\ CapsIdle /\ DemuxIdle /\ ChannelIdle /\ CallbacksIdle

Next == Install \/ Uninstall

Spec == Init /\ [][Next]_vars

\* The munger with a base class whose apply_file_munge may throw, at work on
\* the munges of up to two capability changes.
FailureInit ==
    /\ Init
    /\ CAPS_SELECTOR \in DOMAIN munge.parents => Len(munge.parents[CAPS_SELECTOR]) <= 2

FailureNext == Install \/ Uninstall \/ InstallFailing \/ UninstallFailing

SpecFailure == FailureInit /\ [][FailureNext]_vars

CapsSpecInit == MungerIdle /\ CapsInit /\ DemuxIdle /\ ChannelIdle /\ CallbacksIdle

CapsNext == Dedupe \/ Sort \/ Reorder

SpecCaps == CapsSpecInit /\ [][CapsNext]_vars

DemuxSpecInit == MungerIdle /\ CapsIdle /\ DemuxInit /\ ChannelIdle /\ CallbacksIdle

DemuxNext == GeneratePluginConfigMunge

SpecDemux == DemuxSpecInit /\ [][DemuxNext]_vars

PrefixerSpecInit == MungerIdle /\ PrefixerInit /\ DemuxIdle /\ ChannelIdle /\ CallbacksIdle

PrefixerNext == Prefix

SpecPrefixer == PrefixerSpecInit /\ [][PrefixerNext]_vars

ChannelSpecInit == MungerIdle /\ CapsIdle /\ DemuxIdle /\ ChannelInit /\ CallbacksIdle

ChannelNext == Subscribe \/ Fire \/ Join

SpecChannel == ChannelSpecInit /\ [][ChannelNext]_vars

StartupSpecInit == MungerIdle /\ CapsIdle /\ DemuxIdle /\ StartupInit /\ CallbacksIdle

StartupNext ==
    Bootstrap \/ ChannelEvent \/ WaitForInitialization \/ Timeout \/ DeviceReadyListener

SpecStartup == StartupSpecInit /\ [][StartupNext]_vars

CallbacksSpecInit == MungerIdle /\ CapsIdle /\ DemuxIdle /\ ChannelIdle /\ CallbacksInit

CallbacksNext == Exec \/ OnSuccess \/ OnError \/ CallbackFromNative

SpecCallbacks == CallbacksSpecInit /\ [][CallbacksNext]_vars

(***************************************************************************)
(* Properties                                                              *)
(***************************************************************************)
\* The capability list of a munge; empty when the munge has no CAPS_SELECTOR.
CapabilitiesOf(m) ==
    IF CAPS_SELECTOR \in DOMAIN m.parents THEN m.parents[CAPS_SELECTOR] ELSE <<>>

\* xml with its first "Capability" prefixed.
Prefixed(xml) == ReplaceFirst(xml, S_Capability, S_UapCapability)

\* The manifest's capability list held, before the first call, none of the
\* entries of the munge, neither as they are nor prefixed.
StartHoldsNoEntryOfMunge ==
    \A i \in 1..Len(CapabilitiesOf(munge)) :
        /\ CapabilitiesOf(munge)[i].xml \notin Range(start[CAPS_SELECTOR])
        /\ Prefixed(CapabilitiesOf(munge)[i].xml) \notin Range(start[CAPS_SELECTOR])

\* The munge was applied to the Windows 10 manifest and then removed.
InstalledThenRemoved ==
    /\ file = WINDOWS10_MANIFEST
    /\ history = <<FALSE, TRUE>>

\* No entry of the munge, as it is or prefixed, is in the manifest without
\* having been there before the first call.
NoEntryLeftBehind ==
    \A i \in 1..Len(CapabilitiesOf(munge)) :
        \A xml \in { CapabilitiesOf(munge)[i].xml, Prefixed(CapabilitiesOf(munge)[i].xml) } :
            xml \in Range(manifest[CAPS_SELECTOR]) => xml \in Range(start[CAPS_SELECTOR])

\* C1 as stated: whatever the manifest's capability list holds before, applying
\* a munge to the Windows 10 manifest and removing the same munge leaves the
\* capability list as it was, with no entry of the munge left behind.
C1_UninstallSymmetryAnyStart ==
    InstalledThenRemoved =>
        /\ manifest[CAPS_SELECTOR] = start[CAPS_SELECTOR]
        /\ NoEntryLeftBehind

\* C1 amended: when the manifest's capability list holds none of the munge's
\* entries before (neither as they are nor 'uap:'-prefixed), applying a munge
\* to the Windows 10 manifest and removing the same munge leaves the capability
\* list as it was, with no entry of the munge left behind.
C1_UninstallSymmetry ==
    (InstalledThenRemoved /\ StartHoldsNoEntryOfMunge) =>
        /\ manifest[CAPS_SELECTOR] = start[CAPS_SELECTOR]
        /\ NoEntryLeftBehind

\* C1's case: a munge with a capability that is prefixed was installed into a
\* manifest with other capabilities, and removed, by the whitelist variant.
C1_Witness ==
    /\ InstalledThenRemoved
    /\ StartHoldsNoEntryOfMunge
    /\ variant = "whitelist"
    /\ ~threw
    /\ start[CAPS_SELECTOR] # <<>>
    /\ Len(CapabilitiesOf(munge)) >= 2
    /\ \E k \in 1..Len(CapabilitiesOf(delegated[1].munge)) :
          CapabilitiesOf(delegated[1].munge)[k].xml = X_uapChat

\* The last apply_file_munge call was an install by the whitelist variant that
\* reached the base call with a munge that has CAPS_SELECTOR.
InstallDelegatedCapabilities ==
    /\ variant = "whitelist"
    /\ history # <<>>
    /\ history[Len(history)] = FALSE
    /\ CAPS_SELECTOR \in DOMAIN munge.parents
    /\ ~threw

\* C10: after an install (whitelist variant) of a munge with CAPS_SELECTOR,
\* the capability list handed to the base apply_file_munge has pairwise
\* distinct capability names and is in strictly ascending order of name.
C10_InstallNormalized ==
    InstallDelegatedCapabilities =>
        /\ Len(delegated) = 1
        /\ LET list == delegated[1].munge.parents[CAPS_SELECTOR]
           IN  /\ \A i, j \in 1..Len(list) :
                     i # j => matchName(list[i].xml) # matchName(list[j].xml)
               /\ \A i \in 1..Len(list) - 1 :
                     StringLess(matchName(list[i].xml), matchName(list[i + 1].xml))

\* C10's case: the input list had a repeated name and was out of order, and
\* an upper-case name is sorted before the lower-case ones.
C10_Witness ==
    /\ InstallDelegatedCapabilities
    /\ file = WINDOWS10_MANIFEST
    /\ munge.parents[CAPS_SELECTOR] = <<Change(X_webcam), Change(X_webcamId), Change(X_Location)>>
    /\ delegated[1].munge.parents[CAPS_SELECTOR] = <<Change(X_Location), Change(X_webcam)>>

\* The last operation on the capability list.
LastOp == IF ops = <<>> THEN "none" ELSE ops[Len(ops)]

\* C7: getUniqueCapabilities applied to a list that getUniqueCapabilities
\* returned gives that list again.
C7_DedupIdempotent ==
    (Len(ops) >= 2 /\ ops[Len(ops)] = "dedupe" /\ ops[Len(ops) - 1] = "dedupe")
        => caps = capsPrev

\* C7's case: the first of two getUniqueCapabilities calls removed changes.
C7_Witness ==
    /\ ops = <<"dedupe", "dedupe">>
    /\ Len(capsInput) = MaxLen
    /\ Len(caps) < Len(capsInput)

\* The elements of cs at the positions in keep, in the order of cs.
RECURSIVE Pick(_, _, _)
Pick(cs, keep, i) ==
    IF i > Len(cs) THEN <<>>
    ELSE (IF i \in keep THEN <<cs[i]>> ELSE <<>>) \o Pick(cs, keep, i + 1)

\* For each capability name of cs the first change of that name, in input order.
FirstOccurrences(cs) ==
    Pick(cs, { i \in 1..Len(cs) :
                 \A j \in 1..(i - 1) : matchName(cs[j].xml) # matchName(cs[i].xml) }, 1)

\* C8: getUniqueCapabilities(cs) is the subsequence of cs made of the first
\* change of each capability name; changes of one name are the same capability
\* whatever the rest of their xml.
C8_DedupKeepsFirst ==
    LastOp = "dedupe" => caps = FirstOccurrences(capsPrev)

\* C8's case: two changes of one name with different xml, another between them.
C8_Witness ==
    /\ LastOp = "dedupe"
    /\ capsPrev = <<Change(X_webcam), Change(X_chat), Change(X_webcamId)>>
    /\ caps = <<Change(X_webcam), Change(X_chat)>>

\* C9: a deduplicated list sorted with compareCapabilities gives the same list
\* in whatever order it is handed over: after getUniqueCapabilities, any
\* reordering and a sort, the list is the sorted deduplicated input.
C9_SortDeterministic ==
    (Len(ops) >= 2 /\ ops[1] = "dedupe" /\ LastOp = "sort")
        => caps = sortCapabilities(getUniqueCapabilities(capsInput))

\* C9's case: a deduplicated list of three changes was reordered, and the sort
\* changed the order it was handed.
C9_Witness ==
    /\ ops = <<"dedupe", "reorder", "sort">>
    /\ Len(caps) = 3
    /\ caps # capsPrev
    /\ capsPrev # getUniqueCapabilities(capsInput)

(***************************************************************************)
(* Properties of generate_plugin_config_munge                              *)
(***************************************************************************)
\* The last generate_plugin_config_munge call: the changes it was given
\* (the caller's changes, then the edit_config changes) and the changes it
\* handed to the base class' generate_plugin_config_munge.
Called == generated # <<>>
Raw ==
    generated[Len(generated)].input
        \o (IF edit_config_changes.given THEN edit_config_changes.items ELSE <<>>)
Out == generated[Len(generated)].changes

\* The change targets package.appxmanifest and has versions or deviceTarget.
Qualified(c) ==
    /\ Get(c, "target") = PACKAGE_MANIFEST
    /\ Get(c, "versions") # undefined \/ Get(c, "deviceTarget") # undefined

\* The device family of a qualified change.
Family(c) ==
    IF Get(c, "deviceTarget") \in {"windows", "phone", "all"} THEN c.deviceTarget ELSE "all"

\* The known version v is in the range of the change.
InRange(c, v) == Get(c, "versions") = undefined \/ satisfies(v, c.versions)

\* The manifests the MANIFESTS table lists for the device family of a
\* qualified change under the known versions in its range, each with the
\* version that lists it.
ExpectedManifests(c) ==
    LET row == MANIFESTS[Family(c)]
    IN  UNION { { <<row[e].winver, row[e].files[k]>> : k \in 1..Len(row[e].files) } :
                  e \in { e \in DOMAIN row : InRange(c, row[e].winver) } }

\* The number of changes handed on for one given change.
GroupSize(c) == IF Qualified(c) THEN Cardinality(ExpectedManifests(c)) ELSE 1

\* The number of changes handed on for the given changes before position i.
RECURSIVE Offset(_, _)
Offset(raw, i) == IF i <= 1 THEN 0 ELSE Offset(raw, i - 1) + GroupSize(raw[i - 1])

\* The changes handed on for the given change at position i: those at its
\* positions, as far as the list reaches.
Group(i) ==
    LET from == Offset(Raw, i) + 1
        to   == Min({Offset(Raw, i) + GroupSize(Raw[i]), Len(Out)})
    IN  IF from > to THEN <<>> ELSE SubSeq(Out, from, to)

Targets(cs) == [ k \in 1..Len(cs) |-> Get(cs[k], "target") ]

\* C2: for a change that targets package.appxmanifest with versions and/or
\* deviceTarget set, exactly one change is handed on per manifest the MANIFESTS
\* table lists for its device family under the known versions in its range,
\* and nothing else; deviceTarget 'all' with versions '10.0.0' yields one
\* change, for package.windows10.appxmanifest.
C2_DemuxProjection ==
    Called =>
        /\ Len(Out) = Offset(Raw, Len(Raw) + 1)
        /\ \A i \in 1..Len(Raw) :
              Qualified(Raw[i]) =>
                  /\ Len(Group(i)) = GroupSize(Raw[i])
                  /\ \A m \in { e[2] : e \in ExpectedManifests(Raw[i]) } :
                        Cardinality({ k \in 1..Len(Group(i)) : Group(i)[k].target = m }) = 1
                  /\ \A k \in 1..Len(Group(i)) :
                        Group(i)[k].target \in { e[2] : e \in ExpectedManifests(Raw[i]) }
                  /\ (Get(Raw[i], "deviceTarget") = "all" /\ Get(Raw[i], "versions") = "10.0.0")
                        => Targets(Group(i)) = <<WINDOWS10_MANIFEST>>

\* C2's case: deviceTarget 'all' with versions '10.0.0' after another change.
C2_Witness ==
    /\ Called
    /\ Len(Raw) = 2
    /\ Raw[1] = ConfigChange(PACKAGE_MANIFEST, ">=8.1.0", "phone")
    /\ Raw[2] = ConfigChange(PACKAGE_MANIFEST, "10.0.0", "all")
    /\ Targets(Out) = <<PHONE_MANIFEST, WINDOWS10_MANIFEST, WINDOWS10_MANIFEST>>

\* The deviceTarget of the change is set and is none of the device families.
Unresolvable(c) ==
    /\ Get(c, "deviceTarget") # undefined
    /\ Get(c, "deviceTarget") \notin {"windows", "phone", "all"}

\* C3: a change that targets package.appxmanifest with a deviceTarget that is
\* none of 'windows', 'phone', 'all' is handed on for the same manifests, in
\* the same order, as the same change with deviceTarget 'all'.
C3_DemuxFallback ==
    Called =>
        \A i \in 1..Len(Raw) :
            (Qualified(Raw[i]) /\ Unresolvable(Raw[i])) =>
                Targets(Group(i)) =
                    Targets(generate_plugin_config_munge(
                                << [ Raw[i] EXCEPT !.deviceTarget = "all" ] >>,
                                undefinedArray).changes)

\* C3's case: deviceTarget 'bogus' with a range that holds both known versions.
C3_Witness ==
    /\ Called
    /\ \E i \in 1..Len(Raw) :
          /\ Raw[i] = ConfigChange(PACKAGE_MANIFEST, ">=8.1.0", "bogus")
          /\ Targets(Group(i)) = <<WINDOWS_MANIFEST, PHONE_MANIFEST, WINDOWS10_MANIFEST>>

\* C4: a change whose target is not package.appxmanifest, or that has neither
\* versions nor deviceTarget, is handed on once and as it is.
C4_DemuxPassThrough ==
    Called =>
        /\ Len(Out) = Offset(Raw, Len(Raw) + 1)
        /\ \A i \in 1..Len(Raw) : ~Qualified(Raw[i]) => Group(i) = <<Raw[i]>>

\* C4's case: a qualified change of another file and an unqualified change of
\* package.appxmanifest, handed on beside a change that is demultiplexed.
C4_Witness ==
    /\ Called
    /\ \E i, j, k \in 1..Len(Raw) :
          /\ Raw[i] = ConfigChange("config.xml", "10.0.0", "phone")
          /\ Raw[j] = PlainChange(PACKAGE_MANIFEST, "/Package/Properties")
          /\ Qualified(Raw[k]) /\ GroupSize(Raw[k]) = 3
          /\ Group(i) = <<Raw[i]>>
          /\ Group(j) = <<Raw[j]>>

\* C5 as stated: a change handed on for a qualified package.appxmanifest change
\* has, in every field but target, the value of the original: parent, xml,
\* xmls, after, versions, deviceTarget, count and before.
C5_DemuxKeepsAllFields ==
    Called =>
        \A i \in 1..Len(Raw) :
            Qualified(Raw[i]) =>
                \A k \in 1..Len(Group(i)) :
                    \A f \in { "parent", "xml", "xmls", "after", "versions",
                               "deviceTarget", "count", "before" } :
                        Get(Group(i)[k], f) = Get(Raw[i], f)

\* C5 amended: a change handed on for a qualified package.appxmanifest change
\* has the original's parent, after, xmls, versions and deviceTarget; the
\* original's xml, count and before are not carried over.
C5_DemuxKeepsCopiedFields ==
    Called =>
        \A i \in 1..Len(Raw) :
            Qualified(Raw[i]) =>
                \A k \in 1..Len(Group(i)) :
                    /\ \A f \in { "parent", "after", "xmls", "versions", "deviceTarget" } :
                          Get(Group(i)[k], f) = Get(Raw[i], f)
                    /\ \A f \in { "xml", "count", "before" } :
                          Get(Group(i)[k], f) = undefined

\* C5's case: a change with xml, count and before, and one with xmls and
\* after, are demultiplexed.
C5_Witness ==
    /\ Called
    /\ \E i, j \in 1..Len(Raw) :
          /\ Raw[i] = ModelChange(PACKAGE_MANIFEST, "10.0.0", "all")
          /\ Raw[j] = ConfigChange(PACKAGE_MANIFEST, "<10.0.0", "all")
          /\ Len(Group(i)) = 1
          /\ Len(Group(j)) = 2

\* The manifests of a qualified change in the order of the table's version
\* keys: those of 8.1.0, the windows manifest before the phone manifest, then
\* that of 10.0.0.
ExpectedTargetSeq(c) ==
    (IF ~InRange(c, V8_1_0) THEN <<>>
     ELSE IF Family(c) = "windows" THEN <<WINDOWS_MANIFEST>>
     ELSE IF Family(c) = "phone" THEN <<PHONE_MANIFEST>>
     ELSE <<WINDOWS_MANIFEST, PHONE_MANIFEST>>)
    \o (IF InRange(c, V10_0_0) THEN <<WINDOWS10_MANIFEST>> ELSE <<>>)

\* The changes the given changes from position i on are handed on as: each
\* given change's own, one per manifest in table order, or the change itself.
RECURSIVE ExpectedFrom(_, _)
ExpectedFrom(raw, i) ==
    IF i > Len(raw) THEN <<>>
    ELSE (IF Qualified(raw[i])
          THEN [ k \in 1..Len(ExpectedTargetSeq(raw[i])) |->
                   [ target |-> ExpectedTargetSeq(raw[i])[k],
                     parent |-> Get(raw[i], "parent"),
                     xmls |-> Get(raw[i], "xmls"),
                     versions |-> Get(raw[i], "versions"),
                     deviceTarget |-> Get(raw[i], "deviceTarget") ] ]
          ELSE << [ target |-> Get(raw[i], "target"),
                    parent |-> Get(raw[i], "parent"),
                    xmls |-> Get(raw[i], "xmls"),
                    versions |-> Get(raw[i], "versions"),
                    deviceTarget |-> Get(raw[i], "deviceTarget") ] >>)
         \o ExpectedFrom(raw, i + 1)

\* C6: the changes are handed on grouped in the order of the given changes,
\* and within one given change in the order of the table's version keys
\* (8.1.0 before 10.0.0), the windows manifest before the phone manifest.
C6_DemuxOrder ==
    Called =>
        [ k \in 1..Len(Out) |->
            [ target |-> Get(Out[k], "target"),
              parent |-> Get(Out[k], "parent"),
              xmls |-> Get(Out[k], "xmls"),
              versions |-> Get(Out[k], "versions"),
              deviceTarget |-> Get(Out[k], "deviceTarget") ] ]
        = ExpectedFrom(Raw, 1)

\* C6's case: two changes that are each handed on for several manifests.
C6_Witness ==
    /\ Called
    /\ Len(Raw) = 2
    /\ Raw[1] = ConfigChange(PACKAGE_MANIFEST, undefined, "all")
    /\ Raw[2] = ConfigChange(PACKAGE_MANIFEST, ">=8.1.0", "windows")
    /\ Targets(Out) = <<WINDOWS_MANIFEST, PHONE_MANIFEST, WINDOWS10_MANIFEST,
                        WINDOWS_MANIFEST, WINDOWS10_MANIFEST>>


(***************************************************************************)
(* Properties of generateUapCapabilities                                   *)
(***************************************************************************)
\* The change adds a <Capability> element.
IsCapabilityChange(c) == hasCapabilityChange(c)

\* The change adds a <Capability> element whose name is in CapsNeedUapPrefix.
IsMember(c) == IsCapabilityChange(c) /\ matchName(c.xml) \in CapsNeedUapPrefix

\* The change adds a <Capability> element that has a name, and the name is not
\* in CapsNeedUapPrefix.
IsNonMember(c) ==
    /\ IsCapabilityChange(c)
    /\ matchName(c.xml) # null
    /\ matchName(c.xml) \notin CapsNeedUapPrefix

\* xml with "uap:" put in right after the "<" of its opening element, and
\* nothing else changed.
OpeningNamePrefixed(xml) ==
    LET open == 1 + SpaceRun(xml, 1)
    IN  SubSeq(xml, 1, open) \o <<"u", "a", "p", ":">> \o SubSeq(xml, open + 1, Len(xml))

\* C11: generateUapCapabilities (whitelist variant) of one <Capability> change
\* whose name is in CapsNeedUapPrefix returns one change: its xml is the
\* original's with the opening element name, the first 'Capability' of the
\* text, rewritten to 'uap:Capability' and nothing else, its capability name
\* is the original's, and so are its count and before.
C11_MemberPrefixed ==
    (LastOp = "prefix" /\ Len(capsPrev) = 1 /\ IsMember(capsPrev[1])) =>
        /\ Len(caps) = 1
        /\ caps[1].xml = OpeningNamePrefixed(capsPrev[1].xml)
        /\ matchName(caps[1].xml) = matchName(capsPrev[1].xml)
        /\ caps[1].count = capsPrev[1].count
        /\ caps[1].before = capsPrev[1].before
        /\ DOMAIN caps[1] = {"xml", "count", "before"}

\* C11's case: a change whose xml names 'Capability' twice, with a count and
\* a before of its own.
C11_Witness ==
    /\ LastOp = "prefix"
    /\ capsPrev = <<ChangeWith(X_chatPair, 2, "Capability")>>
    /\ Len(caps) = 1
    /\ caps[1].xml # X_chatPair
    /\ caps[1].count = 2

\* C13: generateUapCapabilities (whitelist variant) returns the <Capability>
\* changes of its input in their order, and one whose name is not in
\* CapsNeedUapPrefix is returned as it is, at its place among them.
C13_NonMemberPassThrough ==
    LastOp = "prefix" =>
        LET kept == SelectSeq(capsPrev, IsCapabilityChange)
        IN  /\ Len(caps) = Len(kept)
            /\ \A i \in 1..Len(kept) : IsNonMember(kept[i]) => caps[i] = kept[i]

\* C13's case: a change that is not in CapsNeedUapPrefix between one that is
\* dropped and one that is prefixed.
C13_Witness ==
    /\ LastOp = "prefix"
    /\ capsPrev = <<Change(X_displayName), ChangeWith(X_Location, 3, "DeviceCapability"),
                    Change(X_chat)>>
    /\ Len(caps) = 2
    /\ caps[1] = ChangeWith(X_Location, 3, "DeviceCapability")
    /\ caps[2].xml = X_uapChat


(***************************************************************************)
(* Properties of apply_file_munge and of the legacy generateUapCapabilities *)
(***************************************************************************)
\* The remove flag of the last apply_file_munge call.
LastRemove == history[Len(history)]

\* The last apply_file_munge call was a removal from the Windows 10 manifest
\* that returned.
RemovedFromWindows10 ==
    /\ history # <<>>
    /\ LastRemove
    /\ file = WINDOWS10_MANIFEST
    /\ ~threw

\* The xml of the changes of a list.
XmlsOf(list) == { list[i].xml : i \in 1..Len(list) }

\* The <Capability> changes of a list, each with "uap:" before its opening
\* element name and with its count and before, in the order of the list.
PrefixedCapabilityChanges(list) ==
    LET kept == SelectSeq(list, IsCapabilityChange)
    IN  [ i \in 1..Len(kept) |->
            [ xml |-> OpeningNamePrefixed(kept[i].xml),
              count |-> kept[i].count,
              before |-> kept[i].before ] ]

\* C12 as stated: a <Capability> change whose name is not in CapsNeedUapPrefix
\* is not in the list the whitelist variant's generateUapCapabilities returns,
\* and the munge the legacy variant's generateUapCapabilities returns holds no
\* change made from it.
C12_NonMemberExcluded ==
    RemovedFromWindows10 =>
        IF variant = "whitelist"
        THEN \A i \in 1..Len(CapabilitiesOf(delegated[1].munge)) :
                 ~IsNonMember(CapabilitiesOf(delegated[1].munge)[i])
        ELSE \A sel \in DOMAIN munge.parents :
                 \A i \in 1..Len(munge.parents[sel]) :
                     IsNonMember(munge.parents[sel][i]) =>
                         /\ sel \in DOMAIN delegated[2].munge.parents =>
                               XmlsOf(delegated[2].munge.parents[sel])
                                   \cap { munge.parents[sel][i].xml,
                                          OpeningNamePrefixed(munge.parents[sel][i].xml) } = {}

\* C12 amended: the <Capability> changes whose name is not in CapsNeedUapPrefix
\* are in the list the whitelist variant's generateUapCapabilities returns, as
\* they are; in the munge the legacy variant's generateUapCapabilities returns
\* each is under its selector with its xml prefixed.
C12_NonMemberKept ==
    RemovedFromWindows10 =>
        IF variant = "whitelist"
        THEN SelectSeq(CapabilitiesOf(delegated[1].munge), IsNonMember)
                 = SelectSeq(CapabilitiesOf(munge), IsNonMember)
        ELSE \A sel \in DOMAIN munge.parents :
                 /\ sel \in DOMAIN delegated[2].munge.parents
                 /\ \A i \in 1..Len(munge.parents[sel]) :
                       IsNonMember(munge.parents[sel][i]) =>
                           /\ OpeningNamePrefixed(munge.parents[sel][i].xml)
                                 \in XmlsOf(delegated[2].munge.parents[sel])
                           /\ munge.parents[sel][i].xml
                                 \notin XmlsOf(delegated[2].munge.parents[sel])

\* C12's case: the legacy variant removed a munge with a change of a name that
\* is not in CapsNeedUapPrefix and one of a name that is.
C12_Witness ==
    /\ RemovedFromWindows10
    /\ variant = "legacy"
    /\ CapabilitiesOf(munge) = <<Change(X_webcam), Change(X_chat)>>
    /\ CapabilitiesOf(delegated[2].munge) = <<Change(X_uapWebcam), Change(X_uapChat)>>

\* C14: the munge the legacy generateUapCapabilities returns has the selectors
\* of the munge it is given; under each selector it holds one prefixed change
\* for every <Capability> change of that selector, whatever its name, in the
\* same order, and the empty list when the selector has none.
C14_LegacyPrefixerShape ==
    (RemovedFromWindows10 /\ variant = "legacy") =>
        /\ DOMAIN delegated[2].munge = {"parents"}
        /\ DOMAIN delegated[2].munge.parents = DOMAIN munge.parents
        /\ \A sel \in DOMAIN munge.parents :
              delegated[2].munge.parents[sel] = PrefixedCapabilityChanges(munge.parents[sel])

\* C14's case: a selector without <Capability> changes beside one with a
\* change whose name is not in CapsNeedUapPrefix.
C14_Witness ==
    /\ RemovedFromWindows10
    /\ variant = "legacy"
    /\ munge.parents = (CAPS_SELECTOR :> <<Change(X_Location)>>)
                           @@ (OTHER_SELECTOR :> <<Change(X_displayName)>>)
    /\ delegated[2].munge.parents[OTHER_SELECTOR] = <<>>
    /\ Len(delegated[2].munge.parents[CAPS_SELECTOR]) = 1

\* C15: the legacy apply_file_munge makes one base call, with its own
\* arguments, when remove is false or the file is not the Windows 10 manifest;
\* on a removal from the Windows 10 manifest it makes two, first the one with
\* its own arguments and then one with the prefixed munge made from the
\* caller's munge and remove set.
C15_LegacyTwoPhase ==
    (variant = "legacy" /\ history # <<>>) =>
        /\ delegated[1] = [ file |-> file, munge |-> munge,
                            remove |-> LastRemove, threw |-> FALSE ]
        /\ IF LastRemove /\ file = WINDOWS10_MANIFEST
           THEN /\ Len(delegated) = 2
                /\ delegated[2].file = file
                /\ delegated[2].remove = TRUE
                /\ \A sel \in DOMAIN munge.parents :
                      /\ sel \in DOMAIN delegated[2].munge.parents
                      /\ delegated[2].munge.parents[sel]
                            = PrefixedCapabilityChanges(munge.parents[sel])
           ELSE Len(delegated) = 1

\* C15's case: an install with one base call and then a removal with two.
C15_Witness ==
    /\ variant = "legacy"
    /\ file = WINDOWS10_MANIFEST
    /\ history = <<FALSE, TRUE>>
    /\ Len(delegated) = 2
    /\ CapabilitiesOf(delegated[1].munge) = <<Change(X_chat), Change(X_webcam)>>
    /\ CapabilitiesOf(delegated[2].munge) = <<Change(X_uapChat), Change(X_uapWebcam)>>

\* C16: on a removal that returns, the capability list of the first base call
\* has, position by position, the changes of the caller's capability list,
\* each as it is or prefixed: none is left out, none moved.
C16_RemovalPassesEveryChange ==
    (history # <<>> /\ LastRemove /\ ~threw /\ CAPS_SELECTOR \in DOMAIN munge.parents) =>
        LET given == munge.parents[CAPS_SELECTOR]
            passed == CapabilitiesOf(delegated[1].munge)
        IN  /\ Len(passed) = Len(given)
            /\ \A i \in 1..Len(given) :
                  passed[i].xml \in { given[i].xml, OpeningNamePrefixed(given[i].xml) }


NamelessChangeRead ==
    /\ CAPS_SELECTOR \in DOMAIN munge.parents
    /\ LET list == munge.parents[CAPS_SELECTOR]
       IN  IF file = WINDOWS10_MANIFEST
           THEN \E i \in 1..Len(list) :
                    IsCapabilityChange(list[i]) /\ matchName(list[i].xml) = null
           ELSE /\ Len(list) >= 2
                /\ \E i \in 1..Len(list) : matchName(list[i].xml) = null

\* C19: an install (whitelist variant) that reads the name of a change without
\* a Name="..." attribute under '/Package/Capabilities' throws, makes no base
\* call and leaves the manifest as it is.
C19_MalformedFailsLoudly ==
    [][ (variant = "whitelist" /\ history' = Append(history, FALSE) /\ NamelessChangeRead) =>
            /\ threw'
            /\ delegated' = <<>>
            /\ manifest' = manifest ]_vars

\* C19's case: an install into another file than the Windows 10 manifest threw
\* on a change without a name that came after changes with names.
C19_Witness ==
    /\ variant = "whitelist"
    /\ file = PHONE_MANIFEST
    /\ history = <<FALSE>>
    /\ CapabilitiesOf(munge) = <<Change(X_webcam), Change(X_webcamId), Change(X_noName)>>
    /\ threw
    /\ delegated = <<>>
    /\ manifest = start

\* C20: when a base call throws, apply_file_munge throws and makes no base
\* call after it; in a removal from the Windows 10 manifest by the legacy
\* variant, after a throw of the first base call the second is not made and
\* the manifest is as before, and after a throw of the second the manifest is
\* as the first left it. Nothing is retried or undone.
C20_FailurePropagates ==
    [][ history' # history =>
            /\ \A k \in 1..Len(delegated') :
                  delegated'[k].threw => (threw' /\ k = Len(delegated'))
            /\ (variant = "legacy" /\ file = WINDOWS10_MANIFEST /\ history' = Append(history, TRUE)) =>
                  /\ delegated'[1].threw => (Len(delegated') = 1 /\ manifest' = manifest)
                  /\ ~delegated'[1].threw =>
                        /\ Len(delegated') = 2
                        /\ delegated'[2].threw => manifest' = baseApply(manifest, delegated'[1]) ]_vars

\* C20's case: the second base call of a removal threw after the first had
\* taken a capability out of the manifest.
C20_Witness ==
    /\ variant = "legacy"
    /\ file = WINDOWS10_MANIFEST
    /\ history = <<TRUE>>
    /\ threw
    /\ Len(delegated) = 2
    /\ ~delegated[1].threw
    /\ delegated[2].threw
    /\ start[CAPS_SELECTOR] = <<X_Location>>
    /\ manifest[CAPS_SELECTOR] = <<>>


(***************************************************************************)
(* Properties of generate_plugin_config_munge: edit_config_changes         *)
(***************************************************************************)
\* The positions of the edit_config changes among the given changes.
EditConfigPositions ==
    (Len(generated[Len(generated)].input) + 1)..Len(Raw)

\* C17: an edit_config change that targets package.appxmanifest with versions
\* and/or deviceTarget set reaches the base class' generate_plugin_config_munge
\* as one change per manifest of the table for its device family and range,
\* in table order, as a plugin's change does, and in no other way: not with
\* the target package.appxmanifest, and not in the edit_config_changes
\* argument.
C17_EditConfigDemuxed ==
    Called =>
        \A i \in EditConfigPositions :
            Qualified(Raw[i]) =>
                /\ Targets(Group(i)) = ExpectedTargetSeq(Raw[i])
                /\ \A k \in 1..Len(Group(i)) :
                      /\ Get(Group(i)[k], "xmls") = Get(Raw[i], "xmls")
                      /\ Get(Group(i)[k], "parent") = Get(Raw[i], "parent")
                /\ \A k \in 1..Len(Out) : Out[k] # Raw[i]
                /\ Raw[i] \notin Range(generated[Len(generated)].edit_config_changes.items)

\* C17's case: an edit_config change for every manifest, after a plugin's
\* change that is handed on as it is.
C17_Witness ==
    /\ Called
    /\ generated[1].input = <<PlainChange(PACKAGE_MANIFEST, "/Package/Properties")>>
    /\ edit_config_changes = Array(<<ConfigChange(PACKAGE_MANIFEST, undefined, "all")>>)
    /\ Targets(Out) = <<PACKAGE_MANIFEST, WINDOWS_MANIFEST, PHONE_MANIFEST, WINDOWS10_MANIFEST>>


(***************************************************************************)
(* Properties of the install pipeline                                      *)
(***************************************************************************)
\* The capability names of a list, in its order.
NamesOf(list) == [ i \in 1..Len(list) |-> matchName(list[i].xml) ]

\* The capability list of the first base call.
DelegatedCapabilities == CapabilitiesOf(delegated[1].munge)

\* C23: the capability list an install into the Windows 10 manifest hands to
\* the base call is generateUapCapabilities of the deduplicated and sorted
\* list of the caller.
C23_PipelineOrderImmaterial ==
    (InstallDelegatedCapabilities /\ file = WINDOWS10_MANIFEST) =>
        DelegatedCapabilities
            = generateUapCapabilities(
                  sortCapabilities(getUniqueCapabilities(munge.parents[CAPS_SELECTOR])))

\* C24: sorting the deduplicated list and deduplicating the sorted list give
\* the same list.
C24_DedupeSortCommute ==
    /\ ops = <<"sort", "dedupe">> => caps = sortCapabilities(getUniqueCapabilities(capsInput))
    /\ ops = <<"dedupe", "sort">> => caps = getUniqueCapabilities(sortCapabilities(capsInput))

\* C24's case: the sort moved a change past another, and two changes of one
\* name with different xml were in the list: the first of them is kept.
C24_Witness ==
    /\ ops = <<"sort", "dedupe">>
    /\ capsInput = <<Change(X_webcamId), Change(X_chat), Change(X_webcam)>>
    /\ caps = <<Change(X_chat), Change(X_webcamId)>>

\* The orders n changes can be handed over in.
Orders(n) == { q \in [1..n -> 1..n] : \A i, j \in 1..n : q[i] = q[j] => i = j }

\* The changes of list in the order p.
Reordered(list, p) == [ i \in 1..Len(list) |-> list[p[i]] ]

C27_NoChangeDropped ==
    (InstallDelegatedCapabilities /\ file = WINDOWS10_MANIFEST) =>
        \A i \in 1..Len(munge.parents[CAPS_SELECTOR]) :
            matchName(munge.parents[CAPS_SELECTOR][i].xml) \in Range(NamesOf(DelegatedCapabilities))

\* The selectors of the munge other than CAPS_SELECTOR are handed to the one
\* base call as they are, and so is a munge that has no CAPS_SELECTOR; the
\* base call has the file and the remove flag of the call.
OneBaseCallWithFrame ==
    /\ Len(delegated) = 1
    /\ delegated[1].file = file
    /\ delegated[1].remove = LastRemove
    /\ DOMAIN delegated[1].munge.parents = DOMAIN munge.parents
    /\ \A sel \in DOMAIN munge.parents \ {CAPS_SELECTOR} :
          delegated[1].munge.parents[sel] = munge.parents[sel]
    /\ CAPS_SELECTOR \notin DOMAIN munge.parents => delegated[1].munge = munge

\* C28 as stated: every apply_file_munge call of the whitelist variant makes
\* one base call, with its file and remove flag, the other selectors' lists
\* as they are and, without CAPS_SELECTOR, the munge as it is.
C28_FrameOfEveryCall ==
    (variant = "whitelist" /\ history # <<>>) => OneBaseCallWithFrame

\* C28 amended: every apply_file_munge call of the whitelist variant that
\* returns makes one base call, with its file and remove flag, the other
\* selectors' lists as they are and, without CAPS_SELECTOR, the munge as it
\* is; a call that throws while it reads a capability name makes none.
C28_FrameOfReturningCall ==
    (variant = "whitelist" /\ history # <<>>) =>
        IF threw THEN delegated = <<>> ELSE OneBaseCallWithFrame

\* C28's case: a munge with another selector beside a capability list that
\* the call rewrote.
C28_Witness ==
    /\ variant = "whitelist"
    /\ history # <<>>
    /\ ~threw
    /\ file = WINDOWS10_MANIFEST
    /\ munge.parents = (CAPS_SELECTOR :> <<Change(X_chat)>>)
                           @@ (OTHER_SELECTOR :> <<Change(X_displayName)>>)
    /\ delegated[1].munge.parents = (CAPS_SELECTOR :> <<Change(X_uapChat)>>)
                                        @@ (OTHER_SELECTOR :> <<Change(X_displayName)>>)

\* C26: in the call of the base class' generate_plugin_config_munge no
\* edit_config change is both in the changes and in the edit_config_changes
\* argument, and the caller's changes array is as long as it was.
C26_EditConfigDeliveredOnce ==
    Called =>
        /\ \A i \in EditConfigPositions :
              ~ /\ Raw[i] \in Range(Out)
                /\ Raw[i] \in Range(generated[Len(generated)].edit_config_changes.items)
        /\ Len(changes) = Len(generated[Len(generated)].input)

(***************************************************************************)
(* Properties of the channels                                              *)
(***************************************************************************)
\* The arguments of the first fire of the channel in trace.
FirstFireArgs(name) ==
    LET fires == { i \in DOMAIN trace : trace[i].op = "fire" /\ trace[i].name = name }
    IN  IF fires = {} THEN null ELSE trace[Min(fires)].args

\* C21: once fire has been called on a sticky channel its state stays 2, and
\* a function subscribed after that is called at once, exactly once, with the
\* arguments of the first fire, and is not kept as a handler.
C21_StickyChannel ==
    [][ /\ \A name \in StickyChannels : channel[name].state = 2 => channel'[name].state = 2
        /\ Len(trace') = Len(trace) + 1 =>
             LET o == trace'[Len(trace')]
             IN  /\ (o.op = "fire" /\ o.name \in StickyChannels) => channel'[o.name].state = 2
                 /\ (o.op = "subscribe" /\ channel[o.name].state = 2) =>
                       /\ called' = Append(called, [ f |-> o.f, this |-> o.name,
                                                     args |-> FirstFireArgs(o.name) ])
                       /\ channel'[o.name].handlers = {}
                       /\ channel'[o.name].numHandlers = 0 ]_vars

\* A sticky channel fired with "a" and then with "b", and a function
\* subscribed after that, which was called with "a".
C21_Witness ==
    /\ Len(trace) = 3
    /\ trace[1] = Operation("fire", "onNativeReady", NoFunction, <<"a">>, <<>>)
    /\ trace[2] = Operation("fire", "onNativeReady", NoFunction, <<"b">>, <<>>)
    /\ trace[3] = Operation("subscribe", "onNativeReady", UserFunction(1), <<>>, <<>>)
    /\ called = << [ f |-> UserFunction(1), this |-> "onNativeReady", args |-> <<"a">> ] >>

\* Every channel of the list has fired.
AllFired(c) == \A j \in DOMAIN c : channel[c[j]].state = 2

\* C29: channel.join(h, c) has called h exactly once when every channel of c
\* has fired, and not at all before, also when a channel occurs more than
\* once in c.
C29_JoinCallsOnce ==
    \A k \in DOMAIN joins :
        ~joins[k].threw => joins[k].calls = IF AllFired(joins[k].c) THEN 1 ELSE 0

\* C22: deviceready is fired at most once, and not before onNativeReady,
\* onPluginsReady, onCordovaReady, onCordovaConnectionReady,
\* onDOMContentLoaded and every channel registered through
\* waitForInitialization before platform.initialize returned have fired.
C22_DevicereadyAfterAll ==
    /\ Len(documentEvents) <= 1
    /\ channel["onDeviceReady"].state = 2 => documentEvents # <<>>
    /\ documentEvents # <<>> =>
          /\ documentEvents = << "deviceready" >>
          /\ \A name \in { "onNativeReady", "onPluginsReady", "onCordovaReady",
                           "onCordovaConnectionReady", "onDOMContentLoaded" }
                         \cup awaited \cup Range(plugins) :
                channel[name].state = 2

\* deviceready has fired on a page whose plugins waited for
\* onCordovaInfoReady, and a listener was called.
C22_Witness ==
    /\ channel["onDeviceReady"].state = 2
    /\ plugins # <<>>
    /\ \E i \in DOMAIN called :
          called[i].this = "onDeviceReady" /\ called[i].args = << "deviceready" >>

(***************************************************************************)
(* Properties of the callbacks of exec                                     *)
(***************************************************************************)
\* C30: after a result for a callback id with keepCallback falsy the id is
\* no longer in cordova.callbacks, and a later result for it calls neither
\* function; with keepCallback truthy the entry stays.
C30_CallbackCleanup ==
    [][ Len(results') = Len(results) + 1 =>
          LET result == results'[Len(results')]
              id == result.callbackId
          IN  /\ (id \in DOMAIN callbacks /\ ~result.keepCallback) =>
                    id \notin DOMAIN callbacks'
              /\ (id \in DOMAIN callbacks /\ result.keepCallback) =>
                    /\ id \in DOMAIN callbacks'
                    /\ callbacks'[id] = callbacks[id]
              /\ id \notin DOMAIN callbacks => delivered' = delivered ]_vars

=============================================================================
